---- MODULE Spec2Model ----
(***************************************************************************)
(* Model of the v5 MAT-file engine of scigolib/matlab: tag codec, write    *)
(* validation, matrix encoder, parser and the public Create/Open API.      *)
(*                                                                         *)
(* Representation.  A byte is a number in 0..255.  A fixed-width unsigned  *)
(* or two's-complement integer (uint16, uint32, int, int64, uint64) is a   *)
(* "word": the sequence of its bytes, most significant byte first.  The   *)
(* byte order of binary.ByteOrder is applied when a word is put on or      *)
(* taken from the stream (PutUint / Uint).  Go's int is the 64-bit int of  *)
(* a 64-bit build.                                                         *)
(***************************************************************************)
EXTENDS Integers, Sequences, FiniteSets, TLC

VARIABLES
    tagPhase,   \* tag harness: "idle" (no stream prepared) or "ready"/"done"
    tagSrc,     \* who produced the bytes: "none", "crafted", "wrapInTag", "writeTag"
    tagOrder,   \* Parser.Header.Order / Writer.header.Order of the harness
    tagIn,      \* the bytes the parser's reader p.r holds
    tagArgs,    \* arguments the producer was called with
    tagOut,     \* what readTag returned
    tagAlloc,   \* size word handed to make([]byte, tag.Size) by readData, or <<>>
    tagRead,    \* what readData returned for the tag: error, data, bytes left in the reader
    onePhase,   \* single-call harness: "idle", "open" (writer created), "done"
    oneV,       \* the Variable handed to WriteVariable
    oneW,       \* the Writer before the call
    oneVal,     \* what validateVariable computed for oneV
    oneRes,     \* what WriteVariable returned: its error and the Writer after the call
    api,        \* session: "none", "v5" (v5.Writer over a buffer), "public" (MatFileWriter)
    wr,         \* the v5.Writer and the bytes of its stream
    mw,         \* the MatFileWriter: which of v5writer and v5file are non-nil
    createErr,  \* the error of the last NewWriter or Create
    callArgs,   \* the arguments of the last NewWriter or Create call
    nWrites,    \* WriteVariable calls made
    lastV,      \* the Variable of the last WriteVariable call
    lastErr,    \* the error the last WriteVariable call returned
    wBefore,    \* the v5.Writer as it was before the last WriteVariable call
    accepted,   \* the Variables whose WriteVariable returned nil, in call order
    file,       \* what NewParser/Parse or Open made of the stream
    closeCalls, \* Close calls made on the MatFileWriter
    fileCloses, \* Close calls that reached the underlying *os.File or *v73.Writer
    closeErr,   \* what the last Close on the MatFileWriter returned
    pPhase,     \* stream harness: "idle", "ready" (stream prepared), "done" (parsed)
    pPlan,      \* how the stream was put together: token, elements, bytes cut off the end
    pIn,        \* the bytes of the prepared stream
    pOut,       \* what NewParser and Parse made of the prepared stream
    pTrace,     \* the iterations of Parse's loop over the prepared stream, in order
    mPhase,     \* matrix harness: "idle", "ready" (matrix prepared), "done" (parsed)
    mPlan,      \* what the prepared matrix was built from
    mIn,        \* the bytes of the stream holding the prepared matrix
    mOut        \* what NewParser and Parse made of that stream

tagVars == <<tagPhase, tagSrc, tagOrder, tagIn, tagArgs, tagOut, tagAlloc, tagRead>>

oneVars == <<onePhase, oneV, oneW, oneVal, oneRes>>

parseVars == <<pPhase, pPlan, pIn, pOut, pTrace>>

matrixVars == <<mPhase, mPlan, mIn, mOut>>

closeVars == <<closeCalls, fileCloses, closeErr>>

mainVars == <<api, wr, mw, createErr, callArgs, nWrites, lastV, lastErr, wBefore, accepted, file,
              closeCalls, fileCloses, closeErr>>

vars == <<tagPhase, tagSrc, tagOrder, tagIn, tagArgs, tagOut, tagAlloc, tagRead,
          onePhase, oneV, oneW, oneVal, oneRes,
          api, wr, mw, createErr, callArgs, nWrites, lastV, lastErr, wBefore, accepted, file,
          closeCalls, fileCloses, closeErr,
          pPhase, pPlan, pIn, pOut, pTrace,
          mPhase, mPlan, mIn, mOut>>

-----------------------------------------------------------------------------
(* Bytes and words *)

Byte == 0..255

\* x := value; body(x)
Bind(x, Body(_)) == Body(x)

LittleEndian == "LittleEndian"
BigEndian    == "BigEndian"
Orders       == {LittleEndian, BigEndian}

Reverse(s) == [i \in 1..Len(s) |-> s[Len(s) + 1 - i]] \o <<>>

\* binary.ByteOrder.PutUint16/32/64: the bytes of word w as laid out in the stream
PutUint(order, w) == IF order = BigEndian THEN w ELSE Reverse(w)

\* binary.ByteOrder.Uint16/32/64: the word held by stream bytes b
Uint(order, b) == IF order = BigEndian THEN b ELSE Reverse(b)

\* uint16(n), uint32(n) for a small non-negative n
U16(n) == <<(n \div 256) % 256, n % 256>>
U32(n) == <<(n \div 16777216) % 256, (n \div 65536) % 256, (n \div 256) % 256, n % 256>>

\* the number held by a 2-byte word
N16(w) == w[1] * 256 + w[2]

\* the number held by a 4-byte word below 2^31
N32(w) == ((w[1] * 256 + w[2]) * 256 + w[3]) * 256 + w[4]

Zeros(n) == [i \in 1..n |-> 0] \o <<>>

\* unsigned comparison of two words of the same width
RECURSIVE WordCmpFrom(_, _, _)
WordCmpFrom(a, b, i) ==
    IF i > Len(a) THEN 0
    ELSE IF a[i] < b[i] THEN -1
    ELSE IF a[i] > b[i] THEN 1
    ELSE WordCmpFrom(a, b, i + 1)

WordCmp(a, b) == WordCmpFrom(a, b, 1)
WordGT(a, b)  == WordCmp(a, b) = 1
WordGE(a, b)  == WordCmp(a, b) >= 0

\* signed (two's complement) a > b
SignedGT(a, b) ==
    IF (a[1] >= 128) # (b[1] >= 128) THEN b[1] >= 128 ELSE WordGT(a, b)

\* w << 1, with bit b0 shifted in, modulo 2^(8*Len(w))
Shl1(w, b0) ==
    [i \in 1..Len(w) |->
        ((w[i] * 2) % 256) + (IF i < Len(w) THEN w[i + 1] \div 128 ELSE b0)] \o <<>>

\* w << 8, with byte b0 shifted in, modulo 2^(8*Len(w))
Shl8(w, b0) == Tail(w) \o <<b0>>

\* bit k of w, k = 0 the most significant
Bit(w, k) == (w[(k \div 8) + 1] \div (2 ^ (7 - (k % 8)))) % 2

RECURSIVE AddFrom(_, _, _, _, _)
AddFrom(a, b, i, carry, acc) ==
    IF i = 0 THEN acc
    ELSE LET s == a[i] + b[i] + carry
         IN  AddFrom(a, b, i - 1, s \div 256, <<s % 256>> \o acc)

\* a + b modulo 2^(8*Len(a))
WordAdd(a, b) == AddFrom(a, b, Len(a), 0, <<>>)

RECURSIVE SubFrom(_, _, _, _, _)
SubFrom(a, b, i, borrow, acc) ==
    IF i = 0 THEN acc
    ELSE LET s == a[i] - b[i] - borrow
         IN  SubFrom(a, b, i - 1, IF s < 0 THEN 1 ELSE 0, <<(s + 256) % 256>> \o acc)

\* a - b modulo 2^(8*Len(a))
WordSub(a, b) == SubFrom(a, b, Len(a), 0, <<>>)

RECURSIVE ScaleFrom(_, _, _, _, _)
ScaleFrom(a, m, i, carry, acc) ==
    IF i = 0 THEN acc
    ELSE LET s == a[i] * m + carry
         IN  ScaleFrom(a, m, i - 1, s \div 256, <<s % 256>> \o acc)

\* a * m modulo 2^(8*Len(a)) for a byte m
WordScale(a, m) == ScaleFrom(a, m, Len(a), 0, <<>>)

RECURSIVE MulFrom(_, _, _, _)
MulFrom(a, b, j, acc) ==
    IF j > Len(b) THEN acc
    ELSE LET acc1 == WordAdd(Shl8(acc, 0), WordScale(a, b[j]))
         IN  IF Len(acc1) = Len(a) THEN MulFrom(a, b, j + 1, acc1) ELSE <<>>

\* a * b modulo 2^(8*Len(a)): Go's wrapping integer multiplication
WordMul(a, b) == MulFrom(a, b, 1, Zeros(Len(a)))

\* one step of binary long division: bring down bit k of a
DivBit(a, b, k, s) ==
    LET r1 == Shl1(s.r, Bit(a, k))
    IN  IF WordGE(r1, b)
        THEN [q |-> Shl1(s.q, 1), r |-> WordSub(r1, b)]
        ELSE [q |-> Shl1(s.q, 0), r |-> r1]

\* the eight steps for byte j of a
DivByte(a, b, j, s) ==
    LET k == 8 * (j - 1)
    IN  DivBit(a, b, k + 7, DivBit(a, b, k + 6, DivBit(a, b, k + 5, DivBit(a, b, k + 4,
        DivBit(a, b, k + 3, DivBit(a, b, k + 2, DivBit(a, b, k + 1, DivBit(a, b, k, s))))))))

RECURSIVE DivFrom(_, _, _, _)
DivFrom(a, b, j, s) ==
    IF j > Len(a) THEN s.q
    ELSE LET s1 == DivByte(a, b, j, s)
         IN  IF Len(s1.q) = Len(a) THEN DivFrom(a, b, j + 1, s1) ELSE <<>>

\* a / b for non-negative a and positive b below 2^(8*Len(a)-1): Go's integer division
WordDiv(a, b) == DivFrom(a, b, 1, [q |-> Zeros(Len(a)), r |-> Zeros(Len(a))])

-----------------------------------------------------------------------------
(* Type ids and class ids *)

miINT8       == 1
miUINT8      == 2
miINT16      == 3
miUINT16     == 4
miINT32      == 5
miUINT32     == 6
miSINGLE     == 7
miDOUBLE     == 9
miINT64      == 12
miUINT64     == 13
miMATRIX     == 14
miCOMPRESSED == 15
miUTF8       == 16

\* the type ids the writer puts into a tag
WriterTypeIds ==
    {miINT8, miUINT8, miINT16, miUINT16, miINT32, miUINT32, miSINGLE, miDOUBLE,
     miINT64, miUINT64, miMATRIX}

-----------------------------------------------------------------------------
(* Reader primitives *)

\* io.ReadFull(r, buf) with len(buf) = n over the remaining bytes r
ReadFull(r, n) ==
    IF n = 0 THEN [err |-> "nil", data |-> <<>>, rest |-> r]
    ELSE IF Len(r) = 0 THEN [err |-> "EOF", data |-> <<>>, rest |-> r]
    ELSE IF Len(r) < n THEN [err |-> "ErrUnexpectedEOF", data |-> <<>>, rest |-> <<>>]
    ELSE [err |-> "nil", data |-> SubSeq(r, 1, n), rest |-> SubSeq(r, n + 1, Len(r))]

\* io.CopyN(io.Discard, r, n), its error ignored
Discard(r, n) == IF Len(r) <= n THEN <<>> ELSE SubSeq(r, n + 1, Len(r))

\* the 2 GiB ceiling, as a uint32 word
maxReasonableSize == <<128, 0, 0, 0>>

NoTag == [DataType |-> <<>>, Size |-> <<>>, IsSmall |-> FALSE]

\* readTag: the mutant accepts the small format for any non-zero upper half
readTagNoUpperBound(r, order) ==
    Bind(ReadFull(r, 8), LAMBDA rd :
    IF rd.err # "nil" THEN [err |-> rd.err, tag |-> NoTag, rest |-> rd.rest]
    ELSE
    Bind(Uint(order, SubSeq(rd.data, 1, 4)), LAMBDA firstWord :
    Bind(N16(SubSeq(firstWord, 1, 2)), LAMBDA size :             \* firstWord >> 16
    IF size > 0
    THEN \* small format
         [err |-> "nil",
          tag |-> [DataType |-> <<0, 0, firstWord[3], firstWord[4]>>,   \* firstWord & 0xFFFF
                   Size     |-> <<0, 0, firstWord[1], firstWord[2]>>,
                   IsSmall  |-> TRUE],
          rest |-> rd.rest]
    ELSE \* regular format
    Bind(Uint(order, SubSeq(rd.data, 5, 8)), LAMBDA size2 :
    IF WordGT(size2, maxReasonableSize)
    THEN [err |-> "tag size too large", tag |-> NoTag, rest |-> rd.rest]
    ELSE [err |-> "nil",
          tag |-> [DataType |-> firstWord, Size |-> size2, IsSmall |-> FALSE],
          rest |-> rd.rest]))))

\* readTag: the mutant compares the size with the ceiling by >= instead of >
readTagCeilingOff(r, order) ==
    Bind(ReadFull(r, 8), LAMBDA rd :
    IF rd.err # "nil" THEN [err |-> rd.err, tag |-> NoTag, rest |-> rd.rest]
    ELSE
    Bind(Uint(order, SubSeq(rd.data, 1, 4)), LAMBDA firstWord :
    Bind(N16(SubSeq(firstWord, 1, 2)), LAMBDA size :             \* firstWord >> 16
    IF size > 0 /\ size <= 4
    THEN \* small format
         [err |-> "nil",
          tag |-> [DataType |-> <<0, 0, firstWord[3], firstWord[4]>>,   \* firstWord & 0xFFFF
                   Size     |-> <<0, 0, firstWord[1], firstWord[2]>>,
                   IsSmall  |-> TRUE],
          rest |-> rd.rest]
    ELSE \* regular format
    Bind(Uint(order, SubSeq(rd.data, 5, 8)), LAMBDA size2 :
    IF WordGE(size2, maxReasonableSize)
    THEN [err |-> "tag size too large", tag |-> NoTag, rest |-> rd.rest]
    ELSE [err |-> "nil",
          tag |-> [DataType |-> firstWord, Size |-> size2, IsSmall |-> FALSE],
          rest |-> rd.rest]))))

\* (p *Parser) readTag over the remaining bytes r of p.r, with p.Header.Order = order
readTag(r, order) ==
    Bind(ReadFull(r, 8), LAMBDA rd :
    IF rd.err # "nil" THEN [err |-> rd.err, tag |-> NoTag, rest |-> rd.rest]
    ELSE
    Bind(Uint(order, SubSeq(rd.data, 1, 4)), LAMBDA firstWord :
    Bind(N16(SubSeq(firstWord, 1, 2)), LAMBDA size :             \* firstWord >> 16
    IF size > 0 /\ size <= 4
    THEN \* small format
         [err |-> "nil",
          tag |-> [DataType |-> <<0, 0, firstWord[3], firstWord[4]>>,   \* firstWord & 0xFFFF
                   Size     |-> <<0, 0, firstWord[1], firstWord[2]>>,
                   IsSmall  |-> TRUE],
          rest |-> rd.rest]
    ELSE \* regular format
    Bind(Uint(order, SubSeq(rd.data, 5, 8)), LAMBDA size2 :
    IF WordGT(size2, maxReasonableSize)
    THEN [err |-> "tag size too large", tag |-> NoTag, rest |-> rd.rest]
    ELSE [err |-> "nil",
          tag |-> [DataType |-> firstWord, Size |-> size2, IsSmall |-> FALSE],
          rest |-> rd.rest]))))

\* does a uint32 word exceed the number n (n below 2^31)?
SizeExceeds(w, n) == WordGT(w, U32(n))

\* (p *Parser) readData: data = make([]byte, tag.Size); io.ReadFull; skip padding
readData(r, tag) ==
    IF SizeExceeds(tag.Size, Len(r))
    THEN [err |-> IF Len(r) = 0 THEN "EOF" ELSE "ErrUnexpectedEOF",
          data |-> <<>>, rest |-> <<>>, alloc |-> tag.Size]
    ELSE
    Bind(N32(tag.Size), LAMBDA n :
    Bind(ReadFull(r, n), LAMBDA rd :
    Bind((8 - (n % 8)) % 8, LAMBDA padding :
    [err |-> "nil", data |-> rd.data,
     rest |-> IF ~tag.IsSmall /\ padding > 0 THEN Discard(rd.rest, padding) ELSE rd.rest,
     alloc |-> tag.Size])))

-----------------------------------------------------------------------------
(* Writer primitives *)

\* wrapInTag: the mutant packs payloads of 1..4 bytes into the small format
wrapInTagCompact(order, dataType, data) ==
    LET size    == Len(data)
        padding == (8 - (size % 8)) % 8
    IN  IF size > 0 /\ size <= 4
        THEN PutUint(order, U16(size) \o U16(dataType)) \o data \o Zeros(4 - size)
        ELSE PutUint(order, U32(dataType)) \o PutUint(order, U32(size)) \o data \o Zeros(padding)

\* wrapInTag: the mutant leaves out the outer "% 8" of the padding
wrapInTagUnreduced(order, dataType, data) ==
    LET size    == Len(data)
        padding == 8 - (size % 8)
    IN  PutUint(order, U32(dataType)) \o PutUint(order, U32(size)) \o data \o Zeros(padding)

\* (w *Writer) wrapInTag(dataType, data) with w.header.Order = order
wrapInTag(order, dataType, data) ==
    LET size    == Len(data)
        padding == (8 - (size % 8)) % 8
    IN  PutUint(order, U32(dataType)) \o PutUint(order, U32(size)) \o data \o Zeros(padding)

\* the 8 bytes (w *Writer) writeTag(dataType, size) hands to w.w.Write
writeTag(order, dataType, size) ==
    PutUint(order, U32(dataType)) \o PutUint(order, U32(size))

-----------------------------------------------------------------------------
(* Variables and payloads (types.Variable, types.NumericArray)               *)
(*                                                                         *)
(* A payload is [kind, vals]: kind is the Go type of the value held by the *)
(* interface{} ("nil" for a nil interface), vals its elements.  Elements   *)
(* of 8- and 16-bit integer kinds are numbers; elements of the wider kinds *)
(* are words (for the floating kinds, the word math.Float64bits /          *)
(* math.Float32bits yields).  A Variable whose Data is a                   *)
(* *types.NumericArray carries that array's Real and Imag in its Real and  *)
(* Imag fields.                                                            *)

Nil == [kind |-> "nil", vals |-> <<>>]
NumericArrayKind == "*types.NumericArray"

Arr(kind, vals) == [kind |-> kind, vals |-> vals]

Var(name, dims, dt, data) ==
    [Name |-> name, Dimensions |-> dims, DataType |-> dt, IsComplex |-> FALSE,
     IsSparse |-> FALSE, Data |-> data, Real |-> Nil, Imag |-> Nil]

ComplexVar(name, dims, dt, re, im) ==
    [Name |-> name, Dimensions |-> dims, DataType |-> dt, IsComplex |-> TRUE,
     IsSparse |-> FALSE, Data |-> Arr(NumericArrayKind, <<>>), Real |-> re, Imag |-> im]

\* int(n) for a small non-negative n, and a few named ints
I64(n) == Zeros(4) \o U32(n)
IntMinusOne == <<255, 255, 255, 255, 255, 255, 255, 255>>
Int2p31m1   == <<0, 0, 0, 0, 127, 255, 255, 255>>
Int2p32m1   == <<0, 0, 0, 0, 255, 255, 255, 255>>
Int2p32p1   == <<0, 0, 0, 1, 0, 0, 0, 1>>

\* math.MaxInt of a 64-bit build
MaxInt == <<127, 255, 255, 255, 255, 255, 255, 255>>

mxCELL_CLASS   == 1
mxSTRUCT_CLASS == 2
mxOBJECT_CLASS == 3
mxCHAR_CLASS   == 4
mxDOUBLE_CLASS == 6
mxSINGLE_CLASS == 7
mxINT8_CLASS   == 8
mxUINT8_CLASS  == 9
mxINT16_CLASS  == 10
mxUINT16_CLASS == 11
mxINT32_CLASS  == 12
mxUINT32_CLASS == 13
mxINT64_CLASS  == 14
mxUINT64_CLASS == 15

NumericTypes ==
    {"Double", "Single", "Int8", "Uint8", "Int16", "Uint16", "Int32", "Uint32",
     "Int64", "Uint64"}

-----------------------------------------------------------------------------
(* Write validation *)

NoError == [msg |-> "nil", index |-> -1, expected |-> "", actual |-> ""]
Error(msg) == [NoError EXCEPT !.msg = msg]

\* d <= 0 for an int d
NonPositive(d) == d[1] >= 128 \/ d = Zeros(8)

\* validateDimensions: the mutant multiplies without the overflow check
RECURSIVE validateDimensionsUnchecked(_, _, _, _)
validateDimensionsUnchecked(dims, i, total, totals) ==
    IF i >= Len(dims) THEN [err |-> NoError, total |-> total, totals |-> totals]
    ELSE
    Bind(dims[i + 1], LAMBDA d :
    IF NonPositive(d)
    THEN [err |-> [Error("dimension must be positive") EXCEPT !.index = i],
          total |-> total, totals |-> totals]
    ELSE Bind(WordMul(total, d), LAMBDA t :
         validateDimensionsUnchecked(dims, i + 1, t, Append(totals, t))))

\* the loop of validateVariable from index i (0-based) on, total being the running
\* product; totals collects the value of total after each multiplication
RECURSIVE validateDimensions(_, _, _, _)
validateDimensions(dims, i, total, totals) ==
    IF i >= Len(dims) THEN [err |-> NoError, total |-> total, totals |-> totals]
    ELSE
    Bind(dims[i + 1], LAMBDA d :
    IF NonPositive(d)
    THEN [err |-> [Error("dimension must be positive") EXCEPT !.index = i],
          total |-> total, totals |-> totals]
    ELSE IF ~NonPositive(d) /\ SignedGT(total, WordDiv(MaxInt, d))
    THEN [err |-> Error("dimensions overflow"), total |-> total, totals |-> totals]
    ELSE Bind(WordMul(total, d), LAMBDA t :
         validateDimensions(dims, i + 1, t, Append(totals, t))))

\* validateVariable: the mutant accepts a name of up to 64 bytes
validateVariableName64(v) ==
    IF v.Name = <<>> THEN [err |-> Error("variable name is required"), total |-> I64(1), totals |-> <<>>]
    ELSE IF Len(v.Name) > 64 THEN [err |-> Error("variable name too long"), total |-> I64(1), totals |-> <<>>]
    ELSE IF Len(v.Dimensions) = 0 THEN [err |-> Error("dimensions are required"), total |-> I64(1), totals |-> <<>>]
    ELSE IF v.Data.kind = "nil" THEN [err |-> Error("data is required"), total |-> I64(1), totals |-> <<>>]
    ELSE validateDimensions(v.Dimensions, 0, I64(1), <<>>)

\* (w *Writer) validateVariable(v)
validateVariable(v) ==
    IF v.Name = <<>> THEN [err |-> Error("variable name is required"), total |-> I64(1), totals |-> <<>>]
    ELSE IF Len(v.Name) > 63 THEN [err |-> Error("variable name too long"), total |-> I64(1), totals |-> <<>>]
    ELSE IF Len(v.Dimensions) = 0 THEN [err |-> Error("dimensions are required"), total |-> I64(1), totals |-> <<>>]
    ELSE IF v.Data.kind = "nil" THEN [err |-> Error("data is required"), total |-> I64(1), totals |-> <<>>]
    ELSE validateDimensions(v.Dimensions, 0, I64(1), <<>>)

-----------------------------------------------------------------------------
(* Matrix encoder *)

RECURSIVE Concat(_)
Concat(ss) == IF ss = <<>> THEN <<>> ELSE Head(ss) \o Concat(Tail(ss))

\* the put loop of the encode*Array helpers over elements that are words
PutWords(order, data) == Concat([i \in 1..Len(data) |-> PutUint(order, data[i])])

encodeFloat64Array(order, data) == PutWords(order, data)
encodeFloat32Array(order, data) == PutWords(order, data)
encodeInt8Array(order, data)    == [i \in 1..Len(data) |-> (data[i] + 256) % 256] \o <<>>
encodeInt16Array(order, data)   ==
    Concat([i \in 1..Len(data) |-> PutUint(order, U16((data[i] + 65536) % 65536))])
encodeUint16Array(order, data)  == Concat([i \in 1..Len(data) |-> PutUint(order, U16(data[i]))])
encodeInt32Array(order, data)   == PutWords(order, data)
encodeUint32Array(order, data)  == PutWords(order, data)
encodeInt64Array(order, data)   == PutWords(order, data)
encodeUint64Array(order, data)  == PutWords(order, data)

\* (w *Writer) dataTypeToClass
dataTypeToClass(dt) ==
    CASE dt = "Double" -> mxDOUBLE_CLASS
      [] dt = "Single" -> mxSINGLE_CLASS
      [] dt = "Int8"   -> mxINT8_CLASS
      [] dt = "Uint8"  -> mxUINT8_CLASS
      [] dt = "Int16"  -> mxINT16_CLASS
      [] dt = "Uint16" -> mxUINT16_CLASS
      [] dt = "Int32"  -> mxINT32_CLASS
      [] dt = "Uint32" -> mxUINT32_CLASS
      [] dt = "Int64"  -> mxINT64_CLASS
      [] dt = "Uint64" -> mxUINT64_CLASS
      [] OTHER         -> mxDOUBLE_CLASS

\* (w *Writer) encodeArrayFlags
encodeArrayFlags(order, v) ==
    LET flags == (IF v.IsComplex THEN 2048 ELSE 0) + (IF v.IsSparse THEN 1024 ELSE 0)
        class == dataTypeToClass(v.DataType)
    IN  wrapInTag(order, miUINT32, PutUint(order, U32(flags)) \o PutUint(order, U32(class)))

\* uint32(d) for an int d: the low four bytes
LowWord(d) == SubSeq(d, 5, 8)

\* (w *Writer) encodeDimensions
encodeDimensions(order, dims) ==
    wrapInTag(order, miINT32, Concat([i \in 1..Len(dims) |-> PutUint(order, LowWord(dims[i]))]))

\* (w *Writer) encodeName
encodeName(order, name) == wrapInTag(order, miINT8, name)

\* the switch of encodeData: the type id, the Go kind asserted and the raw bytes
encodeSwitch(order, dt, data) ==
    CASE dt = "Double" -> [ok |-> TRUE, id |-> miDOUBLE, want |-> "[]float64", raw |-> encodeFloat64Array(order, data.vals)]
      [] dt = "Single" -> [ok |-> TRUE, id |-> miSINGLE, want |-> "[]float32", raw |-> encodeFloat32Array(order, data.vals)]
      [] dt = "Int8"   -> [ok |-> TRUE, id |-> miINT8,   want |-> "[]int8",    raw |-> encodeInt8Array(order, data.vals)]
      [] dt = "Uint8"  -> [ok |-> TRUE, id |-> miUINT8,  want |-> "[]byte",    raw |-> data.vals]
      [] dt = "Int16"  -> [ok |-> TRUE, id |-> miINT16,  want |-> "[]int16",   raw |-> encodeInt16Array(order, data.vals)]
      [] dt = "Uint16" -> [ok |-> TRUE, id |-> miUINT16, want |-> "[]uint16",  raw |-> encodeUint16Array(order, data.vals)]
      [] dt = "Int32"  -> [ok |-> TRUE, id |-> miINT32,  want |-> "[]int32",   raw |-> encodeInt32Array(order, data.vals)]
      [] dt = "Uint32" -> [ok |-> TRUE, id |-> miUINT32, want |-> "[]uint32",  raw |-> encodeUint32Array(order, data.vals)]
      [] dt = "Int64"  -> [ok |-> TRUE, id |-> miINT64,  want |-> "[]int64",   raw |-> encodeInt64Array(order, data.vals)]
      [] dt = "Uint64" -> [ok |-> TRUE, id |-> miUINT64, want |-> "[]uint64",  raw |-> encodeUint64Array(order, data.vals)]
      [] OTHER         -> [ok |-> FALSE, id |-> 0, want |-> "", raw |-> <<>>]

NoBytes(err) == [err |-> err, bytes |-> <<>>]

\* encodeData: the mutant encodes whatever payload it is given, without the type assertion
encodeDataUnasserted(order, v, imaginary) ==
    Bind(encodeSwitch(order, v.DataType, Arr("", <<>>)), LAMBDA sw :
    IF ~sw.ok THEN NoBytes(Error("unsupported data type"))
    ELSE [err |-> NoError, bytes |-> wrapInTag(order, sw.id, <<>>)])

\* (w *Writer) encodeData(v, imaginary)
encodeData(order, v, imaginary) ==
    IF v.IsComplex /\ v.Data.kind # NumericArrayKind
    THEN NoBytes([Error("complex variable must have *types.NumericArray")
                     EXCEPT !.expected = NumericArrayKind, !.actual = v.Data.kind])
    ELSE IF v.IsComplex /\ imaginary /\ v.Imag.kind = "nil"
    THEN NoBytes(Error("complex variable missing imaginary part"))
    ELSE IF v.IsComplex /\ ~imaginary /\ v.Real.kind = "nil"
    THEN NoBytes(Error("complex variable missing real part"))
    ELSE
    Bind(IF v.IsComplex THEN (IF imaginary THEN v.Imag ELSE v.Real) ELSE v.Data, LAMBDA data :
    Bind(encodeSwitch(order, v.DataType, Arr("", <<>>)), LAMBDA want :
    IF ~want.ok THEN NoBytes(Error("unsupported data type"))
    ELSE IF data.kind # want.want
    THEN NoBytes([Error("type mismatch") EXCEPT !.expected = want.want, !.actual = data.kind])
    ELSE Bind(encodeSwitch(order, v.DataType, data), LAMBDA sw :
         [err |-> NoError, bytes |-> wrapInTag(order, sw.id, sw.raw)])))

\* (w *Writer) encodeMatrixContent
encodeMatrixContent(order, v) ==
    Bind(encodeArrayFlags(order, v) \o encodeDimensions(order, v.Dimensions)
            \o encodeName(order, v.Name), LAMBDA buf3 :
    Bind(encodeData(order, v, FALSE), LAMBDA realData :
    IF realData.err.msg # "nil" THEN NoBytes(realData.err)
    ELSE IF v.IsComplex
    THEN Bind(encodeData(order, v, TRUE), LAMBDA imagData :
         IF imagData.err.msg # "nil" THEN NoBytes(imagData.err)
         ELSE [err |-> NoError, bytes |-> buf3 \o realData.bytes \o imagData.bytes])
    ELSE [err |-> NoError, bytes |-> buf3 \o realData.bytes]))

\* A Writer is [Order, EndianIndicator, Description, pos, out]: its header fields, its
\* position counter and the bytes its io.Writer has accepted.

\* writeMatrix: the mutant counts the 8 bytes of the tag into the size the tag declares
writeMatrixSizeWithTag(w, v) ==
    Bind(encodeMatrixContent(w.Order, v), LAMBDA content :
    IF content.err.msg # "nil" THEN [err |-> content.err, w |-> w]
    ELSE
    Bind(Len(content.bytes), LAMBDA n :
    Bind((8 - (n % 8)) % 8, LAMBDA padding :
    [err |-> NoError,
     w   |-> [w EXCEPT !.out = w.out \o writeTag(w.Order, miMATRIX, n + 8) \o content.bytes
                                     \o Zeros(padding),
                       !.pos = w.pos + 8 + n + padding]])))

\* (w *Writer) writeMatrix
writeMatrix(w, v) ==
    Bind(encodeMatrixContent(w.Order, v), LAMBDA content :
    IF content.err.msg # "nil" THEN [err |-> content.err, w |-> w]
    ELSE
    Bind(Len(content.bytes), LAMBDA n :
    Bind((8 - (n % 8)) % 8, LAMBDA padding :
    [err |-> NoError,
     w   |-> [w EXCEPT !.out = w.out \o writeTag(w.Order, miMATRIX, n) \o content.bytes
                                     \o Zeros(padding),
                       !.pos = w.pos + 8 + n + padding]])))

\* WriteVariable: the mutant writes the outer tag before the content is encoded
WriteVariableTagFirst(w, v) ==
    Bind(validateVariable(v), LAMBDA val :
    IF val.err.msg # "nil" THEN [err |-> val.err, w |-> w]
    ELSE Bind(encodeMatrixContent(w.Order, v), LAMBDA content :
         IF content.err.msg # "nil"
         THEN [err |-> content.err,
               w |-> [w EXCEPT !.out = w.out \o writeTag(w.Order, miMATRIX, 0), !.pos = w.pos + 8]]
         ELSE writeMatrix(w, v)))

\* (w *Writer) WriteVariable
WriteVariable(w, v) ==
    Bind(validateVariable(v), LAMBDA val :
    IF val.err.msg # "nil" THEN [err |-> val.err, w |-> w]
    ELSE writeMatrix(w, v))

\* the tokens of the header, as bytes
TokenIM == <<73, 77>>
TokenMI == <<77, 73>>

\* writeHeader: the mutant copies the description without truncating it
writeHeaderUntruncated(w) ==
    w.Description \o Zeros(116 - Len(w.Description)) \o Zeros(8)
         \o PutUint(w.Order, U16(w.Version)) \o w.EndianIndicator

\* (w *Writer) writeHeader: the 128 bytes handed to w.w.Write
writeHeader(w) ==
    Bind(IF Len(w.Description) > 116 THEN SubSeq(w.Description, 1, 116) ELSE w.Description,
         LAMBDA desc :
    desc \o Zeros(116 - Len(desc)) \o Zeros(8)
         \o PutUint(w.Order, U16(w.Version)) \o w.EndianIndicator)

NoWriter ==
    [Order |-> LittleEndian, EndianIndicator |-> <<>>, Description |-> <<>>, Version |-> 0,
     pos |-> 0, out |-> <<>>]

\* NewWriter(w, description, endian) over an empty stream
NewWriter(description, endian) ==
    IF endian # TokenIM /\ endian # TokenMI
    THEN [err |-> Error("invalid endian indicator"), w |-> NoWriter]
    ELSE Bind([Order |-> IF endian = TokenIM THEN LittleEndian ELSE BigEndian,
               EndianIndicator |-> endian, Description |-> description,
               Version |-> 256, pos |-> 0, out |-> <<>>], LAMBDA w0 :
         [err |-> NoError, w |-> [w0 EXCEPT !.out = writeHeader(w0), !.pos = 128]])

-----------------------------------------------------------------------------
(* Header decoder and parser *)

RECURSIVE TrimRightZeros(_)
\* strings.TrimRight(s, "\x00")
TrimRightZeros(b) ==
    IF b # <<>> /\ b[Len(b)] = 0 THEN TrimRightZeros(SubSeq(b, 1, Len(b) - 1)) ELSE b

NoHeader == [Description |-> <<>>, Version |-> <<>>, EndianIndicator |-> <<>>, Order |-> LittleEndian]

\* parseHeader: the mutant falls back to little-endian for an unrecognised token
parseHeaderFallback(data) ==
    Bind(SubSeq(data, 127, 128), LAMBDA endian :
    Bind(IF endian = TokenIM THEN BigEndian ELSE LittleEndian, LAMBDA order :
         [err |-> "nil",
          hdr |-> [Description     |-> TrimRightZeros(SubSeq(data, 1, 116)),
                   Version         |-> Uint(order, SubSeq(data, 125, 126)),
                   EndianIndicator |-> endian,
                   Order           |-> order]]))

\* parseHeader(data) over the 128 header bytes
parseHeader(data) ==
    Bind(SubSeq(data, 127, 128), LAMBDA endian :
    IF endian # TokenMI /\ endian # TokenIM
    THEN [err |-> "invalid endian indicator", hdr |-> NoHeader]
    ELSE Bind(IF endian = TokenMI THEN LittleEndian ELSE BigEndian, LAMBDA order :
         [err |-> "nil",
          hdr |-> [Description     |-> TrimRightZeros(SubSeq(data, 1, 116)),
                   Version         |-> Uint(order, SubSeq(data, 125, 126)),
                   EndianIndicator |-> endian,
                   Order           |-> order]]))

\* NewParser(r) with (p *Parser) parseHeader: the header and the bytes left in p.r
NewParser(r) ==
    Bind(ReadFull(r, 128), LAMBDA rd :
    IF rd.err # "nil" THEN [err |-> rd.err, hdr |-> NoHeader, rest |-> rd.rest]
    ELSE Bind(parseHeader(rd.data), LAMBDA h :
         [err |-> h.err, hdr |-> h.hdr, rest |-> rd.rest]))

\* classToDataType(class) for a uint32 word
classToDataType(class) ==
    CASE class = U32(mxDOUBLE_CLASS) -> "Double"
      [] class = U32(mxSINGLE_CLASS) -> "Single"
      [] class = U32(mxINT8_CLASS)   -> "Int8"
      [] class = U32(mxUINT8_CLASS)  -> "Uint8"
      [] class = U32(mxINT16_CLASS)  -> "Int16"
      [] class = U32(mxUINT16_CLASS) -> "Uint16"
      [] class = U32(mxINT32_CLASS)  -> "Int32"
      [] class = U32(mxUINT32_CLASS) -> "Uint32"
      [] class = U32(mxINT64_CLASS)  -> "Int64"
      [] class = U32(mxUINT64_CLASS) -> "Uint64"
      [] class = U32(mxCHAR_CLASS)   -> "Char"
      [] class = U32(mxSTRUCT_CLASS) -> "Struct"
      [] class = U32(mxCELL_CLASS)   -> "CellArray"
      [] OTHER                       -> "Unknown"

\* the words of the first count elements of the given width
TakeWords(order, data, width, count) ==
    [i \in 1..count |-> Uint(order, SubSeq(data, (i - 1) * width + 1, i * width))] \o <<>>

\* int8(b) and int16(w)
ToInt8(b)  == IF b >= 128 THEN b - 256 ELSE b
ToInt16(w) == IF N16(w) >= 32768 THEN N16(w) - 65536 ELSE N16(w)

\* the elements of a word list, each converted to int16 or to uint16
Int16s(ws)  == [i \in 1..Len(ws) |-> ToInt16(ws[i])] \o <<>>
Uint16s(ws) == [i \in 1..Len(ws) |-> N16(ws[i])] \o <<>>

\* (p *Parser) convertData(data, dataType, _) for a uint32 word dataType
convertData(order, data, dataType) ==
    CASE dataType = U32(miDOUBLE) -> Arr("[]float64", TakeWords(order, data, 8, Len(data) \div 8))
      [] dataType = U32(miSINGLE) -> Arr("[]float32", TakeWords(order, data, 4, Len(data) \div 4))
      [] dataType = U32(miINT8)   -> Arr("[]int8", [i \in 1..Len(data) |-> ToInt8(data[i])] \o <<>>)
      [] dataType = U32(miUINT8)  -> Arr("[]byte", data)
      [] dataType = U32(miINT16)  -> Arr("[]int16", Int16s(TakeWords(order, data, 2, Len(data) \div 2)))
      [] dataType = U32(miUINT16) -> Arr("[]uint16", Uint16s(TakeWords(order, data, 2, Len(data) \div 2)))
      [] dataType = U32(miINT32)  -> Arr("[]int32", TakeWords(order, data, 4, Len(data) \div 4))
      [] dataType = U32(miUINT32) -> Arr("[]uint32", TakeWords(order, data, 4, Len(data) \div 4))
      [] dataType = U32(miINT64)  -> Arr("[]int64", TakeWords(order, data, 8, Len(data) \div 8))
      [] dataType = U32(miUINT64) -> Arr("[]uint64", TakeWords(order, data, 8, Len(data) \div 8))
      [] dataType = U32(miUTF8)   -> Arr("string", data)
      [] OTHER                    -> Arr("[]byte", data)

\* p.readTag() followed by p.readData(tag), as parseMatrixContent does for each sub-element
readElement(r, order) ==
    Bind(readTag(r, order), LAMBDA t :
    IF t.err # "nil" THEN [err |-> t.err, tag |-> NoTag, data |-> <<>>, rest |-> t.rest]
    ELSE Bind(readData(t.rest, t.tag), LAMBDA d :
         [err |-> d.err, tag |-> t.tag, data |-> d.data, rest |-> d.rest]))

NoVariable == Var(<<>>, <<>>, "Unknown", Nil)
NoMatrix(err) == [err |-> err, v |-> NoVariable]

\* the dimensions sub-element: int(Order.Uint32(dimsData[i*4:(i+1)*4])) for each i
decodeDimensions(order, dimsData) ==
    [i \in 1..(Len(dimsData) \div 4) |->
        Zeros(4) \o Uint(order, SubSeq(dimsData, (i - 1) * 4 + 1, i * 4))] \o <<>>

\* the Variable parseMatrixContent builds from what it has decoded
makeVariable(name, dimensions, class, isComplex, realValue, imagValue) ==
    [Name |-> name, Dimensions |-> dimensions, DataType |-> classToDataType(class),
     IsComplex |-> isComplex, IsSparse |-> FALSE,
     Data |-> IF isComplex THEN Arr(NumericArrayKind, <<>>) ELSE realValue,
     Real |-> IF isComplex THEN realValue ELSE Nil,
     Imag |-> IF isComplex THEN imagValue ELSE Nil]

\* a result of parseMatrixContent together with the number of sub-elements it has read
Reads(n, m) == [err |-> m.err, v |-> m.v, reads |-> n]

\* (p *Parser) parseMatrixContent over the bytes r of one matrix; e1..e5 are the flags,
\* dimensions, name, real and imaginary sub-elements as read
parseMatrixContent(r, order) ==
    Bind(readElement(r, order), LAMBDA e1 :
    IF e1.err # "nil" THEN Reads(1, NoMatrix(e1.err))
    ELSE IF Len(e1.data) # 8 THEN Reads(1, NoMatrix("invalid array flags size"))
    ELSE
    Bind(Uint(order, SubSeq(e1.data, 1, 4)), LAMBDA flags :
    Bind(Uint(order, SubSeq(e1.data, 5, 8)), LAMBDA class :
    Bind((flags[3] \div 8) % 2 = 1, LAMBDA isComplex :          \* flags & 0x0800
    Bind(readElement(e1.rest, order), LAMBDA e2 :
    IF e2.err # "nil" THEN Reads(2, NoMatrix(e2.err))
    ELSE
    Bind(decodeDimensions(order, e2.data), LAMBDA dimensions :
    Bind(readElement(e2.rest, order), LAMBDA e3 :
    IF e3.err # "nil" THEN Reads(3, NoMatrix(e3.err))
    ELSE
    Bind(readElement(e3.rest, order), LAMBDA e4 :
    IF e4.err # "nil" THEN Reads(4, NoMatrix(e4.err))
    ELSE
    Bind(convertData(order, e4.data, e4.tag.DataType), LAMBDA realValue :
    IF ~isComplex
    THEN [err |-> "nil", reads |-> 4,
          v |-> makeVariable(e3.data, dimensions, class, FALSE, realValue, Nil)]
    ELSE
    Bind(readElement(e4.rest, order), LAMBDA e5 :
    IF e5.err # "nil" THEN Reads(5, NoMatrix(e5.err))
    ELSE [err |-> "nil", reads |-> 5,
          v |-> makeVariable(e3.data, dimensions, class, TRUE, realValue,
                             convertData(order, e5.data, e5.tag.DataType))]))))))))))

\* parseMatrix: the mutant decodes the content from the outer reader, not from a copy of
\* the tag.Size bytes of the matrix
parseMatrixUnbounded(r, order, tag) ==
    IF SizeExceeds(tag.Size, Len(r))
    THEN [err |-> IF Len(r) = 0 THEN "EOF" ELSE "ErrUnexpectedEOF", v |-> NoVariable,
          rest |-> <<>>, reads |-> 0]
    ELSE Bind(ReadFull(r, N32(tag.Size)), LAMBDA rd :
         Bind(parseMatrixContent(r, order), LAMBDA m :
         [err |-> m.err, v |-> m.v, rest |-> rd.rest, reads |-> m.reads]))

\* (p *Parser) parseMatrix(tag) over the remaining bytes r
parseMatrix(r, order, tag) ==
    IF SizeExceeds(tag.Size, Len(r))
    THEN [err |-> IF Len(r) = 0 THEN "EOF" ELSE "ErrUnexpectedEOF", v |-> NoVariable,
          rest |-> <<>>, reads |-> 0]
    ELSE Bind(ReadFull(r, N32(tag.Size)), LAMBDA rd :
         Bind(parseMatrixContent(rd.data, order), LAMBDA m :
         [err |-> m.err, v |-> m.v, rest |-> rd.rest, reads |-> m.reads]))

\* (p *Parser) skipData(tag) over the remaining bytes r: what is left in p.r
skipData(r, tag) ==
    IF SizeExceeds(tag.Size, Len(r)) THEN <<>>
    ELSE Bind(N32(tag.Size), LAMBDA n :
         Bind((8 - (n % 8)) % 8, LAMBDA padding :
         IF ~tag.IsSmall /\ padding > 0 THEN Discard(Discard(r, n), padding)
         ELSE Discard(r, n)))

\* one iteration of Parse's loop: the bytes left in p.r before its readTag and after the
\* element was handled, the tag read, the error the iteration ended with, and the number
\* of sub-elements read when the element was a matrix
Step(r, t, err, left) ==
    [before |-> Len(r), tag |-> t.tag, err |-> err, after |-> left, reads |-> 0]

\* an iteration followed by the rest of the loop
After(step, f) == [f EXCEPT !.steps = <<step>> \o @]

\* Parse: the mutant drops a matrix that fails to decode and goes on with the next element
RECURSIVE ParseLoopSkipCorrupt(_, _, _)
ParseLoopSkipCorrupt(r, order, vs) ==
    Bind(readTag(r, order), LAMBDA t :
    IF t.err = "EOF" THEN [err |-> "nil", vars |-> vs, steps |-> <<Step(r, t, "EOF", 0)>>]
    ELSE IF t.err # "nil" THEN [err |-> t.err, vars |-> <<>>, steps |-> <<Step(r, t, t.err, 0)>>]
    ELSE IF t.tag.DataType = U32(miMATRIX)
    THEN Bind(parseMatrix(t.rest, order, t.tag), LAMBDA m :
         Bind([Step(r, t, m.err, Len(m.rest)) EXCEPT !.reads = m.reads], LAMBDA step :
         IF m.err # "nil" THEN After(step, ParseLoopSkipCorrupt(m.rest, order, vs))
         ELSE After(step, ParseLoopSkipCorrupt(m.rest, order, Append(vs, m.v)))))
    ELSE IF t.tag.DataType = U32(miCOMPRESSED)
    THEN [err |-> "compressed data not yet supported", vars |-> <<>>,
          steps |-> <<Step(r, t, "compressed data not yet supported", Len(t.rest))>>]
    ELSE Bind(skipData(t.rest, t.tag), LAMBDA rest :
         After(Step(r, t, "nil", Len(rest)), ParseLoopSkipCorrupt(rest, order, vs))))

\* Parse: the mutant passes over a compressed element as over an unknown one
RECURSIVE ParseLoopSkipCompressed(_, _, _)
ParseLoopSkipCompressed(r, order, vs) ==
    Bind(readTag(r, order), LAMBDA t :
    IF t.err = "EOF" THEN [err |-> "nil", vars |-> vs, steps |-> <<Step(r, t, "EOF", 0)>>]
    ELSE IF t.err # "nil" THEN [err |-> t.err, vars |-> <<>>, steps |-> <<Step(r, t, t.err, 0)>>]
    ELSE IF t.tag.DataType = U32(miMATRIX)
    THEN Bind(parseMatrix(t.rest, order, t.tag), LAMBDA m :
         Bind([Step(r, t, m.err, Len(m.rest)) EXCEPT !.reads = m.reads], LAMBDA step :
         IF m.err # "nil" THEN [err |-> m.err, vars |-> <<>>, steps |-> <<step>>]
         ELSE After(step, ParseLoopSkipCompressed(m.rest, order, Append(vs, m.v)))))
    ELSE Bind(skipData(t.rest, t.tag), LAMBDA rest :
         After(Step(r, t, "nil", Len(rest)), ParseLoopSkipCompressed(rest, order, vs))))

\* Parse: the mutant takes up the stream again 4 bytes further on when a matrix fails to
\* decode
RECURSIVE ParseLoopResync(_, _, _)
ParseLoopResync(r, order, vs) ==
    Bind(readTag(r, order), LAMBDA t :
    IF t.err = "EOF" THEN [err |-> "nil", vars |-> vs, steps |-> <<Step(r, t, "EOF", 0)>>]
    ELSE IF t.err # "nil" THEN [err |-> t.err, vars |-> <<>>, steps |-> <<Step(r, t, t.err, 0)>>]
    ELSE IF t.tag.DataType = U32(miMATRIX)
    THEN Bind(parseMatrix(t.rest, order, t.tag), LAMBDA m :
         IF m.err # "nil"
         THEN After([Step(r, t, m.err, Len(r) - 4) EXCEPT !.reads = m.reads],
                    ParseLoopResync(Discard(r, 4), order, vs))
         ELSE After([Step(r, t, m.err, Len(m.rest)) EXCEPT !.reads = m.reads],
                    ParseLoopResync(m.rest, order, Append(vs, m.v))))
    ELSE IF t.tag.DataType = U32(miCOMPRESSED)
    THEN [err |-> "compressed data not yet supported", vars |-> <<>>,
          steps |-> <<Step(r, t, "compressed data not yet supported", Len(t.rest))>>]
    ELSE Bind(skipData(t.rest, t.tag), LAMBDA rest :
         After(Step(r, t, "nil", Len(rest)), ParseLoopResync(rest, order, vs))))

\* the loop of (p *Parser) Parse: the variables collected so far are vs
RECURSIVE ParseLoop(_, _, _)
ParseLoop(r, order, vs) ==
    Bind(readTag(r, order), LAMBDA t :
    IF t.err = "EOF" THEN [err |-> "nil", vars |-> vs, steps |-> <<Step(r, t, "EOF", 0)>>]
    ELSE IF t.err # "nil" THEN [err |-> t.err, vars |-> <<>>, steps |-> <<Step(r, t, t.err, 0)>>]
    ELSE IF t.tag.DataType = U32(miMATRIX)
    THEN Bind(parseMatrix(t.rest, order, t.tag), LAMBDA m :
         Bind([Step(r, t, m.err, Len(m.rest)) EXCEPT !.reads = m.reads], LAMBDA step :
         IF m.err # "nil" THEN [err |-> m.err, vars |-> <<>>, steps |-> <<step>>]
         ELSE After(step, ParseLoop(m.rest, order, Append(vs, m.v)))))
    ELSE IF t.tag.DataType = U32(miCOMPRESSED)
    THEN [err |-> "compressed data not yet supported", vars |-> <<>>,
          steps |-> <<Step(r, t, "compressed data not yet supported", Len(t.rest))>>]
    ELSE Bind(skipData(t.rest, t.tag), LAMBDA rest :
         After(Step(r, t, "nil", Len(rest)), ParseLoop(rest, order, vs))))

\* (p *Parser) Parse
Parse(r, order) == ParseLoop(r, order, <<>>)

NoFile(by, err) ==
    [by |-> by, err |-> err, vars |-> <<>>, version |-> "", endian |-> <<>>, description |-> <<>>]

\* v5.NewParser(r) followed by parser.Parse(), as parseV5 of the public package does: the
\* file returned and the iterations Parse's loop went through
parseV5Traced(by, r) ==
    Bind(NewParser(r), LAMBDA p :
    IF p.err # "nil" THEN [file |-> NoFile(by, p.err), steps |-> <<>>]
    ELSE Bind(Parse(p.rest, p.hdr.Order), LAMBDA f :
         [file |-> IF f.err # "nil" THEN NoFile(by, f.err)
                   ELSE [by |-> by, err |-> "nil", vars |-> f.vars, version |-> "5.0",
                         endian |-> p.hdr.EndianIndicator,
                         description |-> p.hdr.Description],
          steps |-> f.steps]))

\* parseV5 of the public package
parseV5(by, r) == parseV5Traced(by, r).file

\* isHDF5Format(header)
isHDF5Format(header) == SubSeq(header, 1, 8) = <<137, 72, 68, 70, 13, 10, 26, 10>>

\* isV5Format(header): string(header[124:128]) compared with "IM" and "MI"
isV5Format(header) ==
    SubSeq(header, 125, 128) = TokenIM \/ SubSeq(header, 125, 128) = TokenMI

\* Open(r): the HDF5 branch hands the stream to the external backend
Open(r) ==
    Bind(ReadFull(r, 128), LAMBDA header :
    IF header.err # "nil" THEN NoFile("Open", header.err)
    ELSE IF isHDF5Format(header.data) THEN NoFile("Open", "v73 backend")
    ELSE IF isV5Format(header.data) THEN parseV5("Open", r)
    ELSE NoFile("Open", "ErrInvalidFormat"))

-----------------------------------------------------------------------------
(* Public writer API *)

\* defaultConfig().description
defaultDescription ==
    <<77, 65, 84, 76, 65, 66, 32, 77, 65, 84, 45, 102, 105, 108, 101, 44, 32, 99, 114, 101,
      97, 116, 101, 100, 32, 98, 121, 32, 115, 99, 105, 103, 111, 108, 105, 98, 47, 109, 97,
      116, 108, 97, 98>>

\* defaultConfig() followed by applyOptions(cfg, opts) for at most one WithEndianness option
applyOptions(opt) ==
    [description |-> defaultDescription,
     endianness  |-> IF opt = "default" THEN LittleEndian ELSE opt]

Version5  == 5
Version73 == 73

\* a MatFileWriter: its version and which of its three handles are non-nil
NoMatFileWriter == [version |-> 0, v73writer |-> FALSE, v5writer |-> FALSE, v5file |-> FALSE]

\* createV73(filename, cfg) on a file the HDF5 backend could create
createV73(cfg) ==
    [err |-> NoError, mw |-> [NoMatFileWriter EXCEPT !.version = Version73, !.v73writer = TRUE],
     w |-> NoWriter]

\* createV5(filename, cfg) on a file that os.Create could create
createV5(cfg) ==
    Bind(NewWriter(cfg.description, IF cfg.endianness = LittleEndian THEN TokenMI ELSE TokenIM),
         LAMBDA nw :
    IF nw.err.msg # "nil"
    THEN [err |-> Error("failed to create v5 writer"), mw |-> NoMatFileWriter, w |-> NoWriter]
    ELSE [err |-> NoError,
          mw |-> [NoMatFileWriter EXCEPT !.version = Version5, !.v5writer = TRUE, !.v5file = TRUE],
          w |-> nw.w])

\* Create(filename, version, opts...)
Create(filename, version, opt) ==
    IF filename = <<>>
    THEN [err |-> Error("filename cannot be empty"), mw |-> NoMatFileWriter, w |-> NoWriter]
    ELSE IF version = Version73 THEN createV73(applyOptions(opt))
    ELSE IF version = Version5 THEN createV5(applyOptions(opt))
    ELSE [err |-> Error("unsupported MAT-file version"), mw |-> NoMatFileWriter, w |-> NoWriter]

\* (w *MatFileWriter) WriteVariable: the mutant writes without looking at the handles
MatFileWriterWriteVariableUnguarded(m, w, v, berr) ==
    IF m.version = Version73 THEN [err |-> berr, w |-> w]
    ELSE WriteVariable(w, v)

\* (w *MatFileWriter) WriteVariable for a non-nil Variable.  The HDF5 backend is not part
\* of the model: berr is what (w *v73.Writer) WriteVariable returns, and the v5 stream is
\* left alone by it.
MatFileWriterWriteVariable(m, w, v, berr) ==
    IF m.version = Version73
    THEN IF ~m.v73writer THEN [err |-> Error("v7.3 writer is not initialized"), w |-> w]
         ELSE [err |-> berr, w |-> w]
    ELSE IF m.version = Version5
    THEN IF ~m.v5writer THEN [err |-> Error("v5 writer is not initialized"), w |-> w]
         ELSE WriteVariable(w, v)
    ELSE [err |-> Error("unsupported version"), w |-> w]

\* Close: the mutant closes the file and keeps the handles
CloseKeepsHandles(m, ferr) ==
    IF m.version = Version73
    THEN IF m.v73writer THEN [err |-> ferr, m |-> m, closed |-> TRUE]
         ELSE [err |-> "nil", m |-> m, closed |-> FALSE]
    ELSE IF m.version = Version5
    THEN IF m.v5file THEN [err |-> ferr, m |-> m, closed |-> TRUE]
         ELSE [err |-> "nil", m |-> m, closed |-> FALSE]
    ELSE [err |-> "nil", m |-> m, closed |-> FALSE]

\* (w *MatFileWriter) Close: the error returned, the writer afterwards, and whether Close
\* was called on the underlying file or backend writer, which returns ferr
Close(m, ferr) ==
    IF m.version = Version73
    THEN IF m.v73writer
         THEN [err |-> ferr, m |-> [m EXCEPT !.v73writer = FALSE], closed |-> TRUE]
         ELSE [err |-> "nil", m |-> m, closed |-> FALSE]
    ELSE IF m.version = Version5
    THEN IF m.v5file
         THEN [err |-> ferr, m |-> [m EXCEPT !.v5writer = FALSE, !.v5file = FALSE],
               closed |-> TRUE]
         ELSE [err |-> "nil", m |-> m, closed |-> FALSE]
    ELSE [err |-> "nil", m |-> m, closed |-> FALSE]

-----------------------------------------------------------------------------
(* Single-call harness: one WriteVariable on a freshly created writer *)

MaxDims == 3

NameOf(n) == [i \in 1..n |-> 97 + (i % 26)] \o <<>>
NameLens == {0, 1, 2, 63, 64, 65}

DimValues == {IntMinusOne, I64(0), I64(2), Int2p31m1, Int2p32m1, MaxInt}
DimLists  == UNION {[1..n -> DimValues] : n \in 0..MaxDims}
FewDimLists == {<<>>, <<I64(1)>>, <<I64(2), I64(3)>>, <<I64(3), I64(0), I64(2)>>}

AllTypes == NumericTypes \cup {"Char", "Struct", "CellArray", "Object", "Unknown"}

Float64One == <<63, 240, 0, 0, 0, 0, 0, 0>>
Float64Two == <<64, 0, 0, 0, 0, 0, 0, 0>>
Float32One == <<63, 128, 0, 0>>

\* a payload of each Go kind a caller may put into Variable.Data
Sample(kind) ==
    CASE kind = "[]float64" -> Arr(kind, <<Float64One, Float64Two>>)
      [] kind = "[]float32" -> Arr(kind, <<Float32One>>)
      [] kind = "[]int8"    -> Arr(kind, <<-1, 5>>)
      [] kind = "[]byte"    -> Arr(kind, <<10, 200>>)
      [] kind = "[]int16"   -> Arr(kind, <<-2, 258>>)
      [] kind = "[]uint16"  -> Arr(kind, <<65535, 1>>)
      [] kind = "[]int32"   -> Arr(kind, <<<<255, 255, 255, 255>>, <<0, 0, 1, 2>>>>)
      [] kind = "[]uint32"  -> Arr(kind, <<<<128, 0, 0, 1>>>>)
      [] kind = "[]int64"   -> Arr(kind, <<<<255, 0, 0, 0, 0, 0, 0, 7>>>>)
      [] kind = "[]uint64"  -> Arr(kind, <<<<1, 2, 3, 4, 5, 6, 7, 8>>>>)
      [] kind = "string"    -> Arr(kind, <<104, 105>>)
      [] OTHER              -> Nil

SliceKinds ==
    {"[]float64", "[]float32", "[]int8", "[]byte", "[]int16", "[]uint16", "[]int32",
     "[]uint32", "[]int64", "[]uint64"}
DataKinds == SliceKinds \cup {"string", "nil"}

\* the Variables handed to the single call
OneInputs ==
    {Var(NameOf(n), dims, "Double", d) :
        n \in NameLens, dims \in FewDimLists, d \in {Nil, Sample("[]float64")}}
    \cup {Var(NameOf(1), dims, "Double", Sample("[]float64")) : dims \in DimLists}
    \cup {Var(NameOf(2), <<I64(2)>>, dt, Sample(k)) : dt \in AllTypes, k \in DataKinds}
    \cup {ComplexVar(NameOf(2), <<I64(2)>>, dt, Sample(kr), Sample(ki)) :
            dt \in {"Double", "Int16", "Char"},
            kr \in {"[]float64", "[]int16", "nil"}, ki \in {"[]float64", "[]int16", "[]int32", "nil"}}
    \cup {[Var(NameOf(2), <<I64(2)>>, "Double", Sample(k)) EXCEPT !.IsComplex = TRUE] :
            k \in {"[]float64", "[]int32"}}

OneInit ==
    /\ onePhase = "idle"
    /\ oneV = Var(<<>>, <<>>, "Double", Nil)
    /\ oneW = NoWriter
    /\ oneVal = [err |-> NoError, total |-> I64(1), totals |-> <<>>]
    /\ oneRes = [err |-> NoError, w |-> NoWriter]

\* NewWriter(&buf, "Test", token)
OneNewWriter ==
    /\ onePhase = "idle"
    /\ \E token \in {TokenIM, TokenMI} : oneW' = NewWriter(<<84, 101, 115, 116>>, token).w
    /\ onePhase' = "open"
    /\ UNCHANGED <<oneV, oneVal, oneRes>>
    /\ UNCHANGED <<tagVars, mainVars, parseVars, matrixVars>>

\* writer.WriteVariable(v); oneVal keeps what validateVariable computed for v
OneWriteVariable ==
    /\ onePhase = "open"
    /\ \E v \in OneInputs :
          /\ oneV' = v
          /\ oneVal' = validateVariable(v)
          /\ oneRes' = WriteVariable(oneW, v)
    /\ onePhase' = "done"
    /\ UNCHANGED oneW
    /\ UNCHANGED <<tagVars, mainVars, parseVars, matrixVars>>

OneNext == OneNewWriter \/ OneWriteVariable

-----------------------------------------------------------------------------
(* Sessions: a writer, some WriteVariable calls, and one read of the stream *)

MaxWrites == 2
MaxCloses == 2

Description == <<84, 101, 115, 116>>
FileName    == <<111, 46, 109, 97, 116>>

\* the Variables handed to the WriteVariable calls of a session
MainInputs ==
    {Var(NameOf(1), <<I64(1), I64(2)>>, "Double", Sample("[]float64")),
     Var(NameOf(2), <<I64(2)>>, "Int16", Sample("[]int16")),
     Var(NameOf(1), <<I64(2), I64(1)>>, "Uint8", Sample("[]byte")),
     Var(NameOf(2), <<I64(1)>>, "Uint64", Sample("[]uint64")),
     Var(NameOf(1), <<I64(1)>>, "Single", Sample("[]float32")),
     ComplexVar(NameOf(2), <<I64(2)>>, "Double", Sample("[]float64"), Sample("[]float64")),
     Var(NameOf(1), <<Int2p32p1>>, "Int8", Sample("[]int8")),
     Var(NameOf(0), <<I64(2)>>, "Double", Sample("[]float64")),
     Var(NameOf(1), <<I64(2), I64(0)>>, "Double", Sample("[]float64")),
     Var(NameOf(1), <<I64(2)>>, "Double", Sample("[]int32")),
     Var(NameOf(1), <<I64(2)>>, "Char", Sample("string")),
     ComplexVar(NameOf(2), <<I64(2)>>, "Double", Sample("[]float64"), Sample("[]int16"))}

\* the Variables handed to a Version73 writer, and what its HDF5 backend may answer
BackendInputs ==
    {Var(NameOf(1), <<I64(1), I64(2)>>, "Double", Sample("[]float64")),
     Var(NameOf(0), <<I64(2)>>, "Double", Sample("[]float64"))}
BackendResults == {NoError, Error("invalid variable")}

NoRead == NoFile("none", "nil")

\* descriptions handed to NewWriter: short, exactly 116 bytes, longer than 116 bytes
Descriptions == {Description, NameOf(116), NameOf(120)}

NoCall == [fn |-> "none", filename |-> <<>>, opt |-> "none", description |-> <<>>, endian |-> <<>>]

MainInit ==
    /\ api = "none"
    /\ wr = NoWriter
    /\ mw = NoMatFileWriter
    /\ createErr = NoError
    /\ callArgs = NoCall
    /\ nWrites = 0
    /\ lastV = NoVariable
    /\ lastErr = NoError
    /\ wBefore = NoWriter
    /\ accepted = <<>>
    /\ file = NoRead
    /\ closeCalls = 0
    /\ fileCloses = 0
    /\ closeErr = "none"

\* v5.NewWriter(&buf, "Test", token)
DoNewWriter ==
    /\ api = "none"
    /\ \E description \in Descriptions, token \in {TokenIM, TokenMI, <<88, 88>>} :
          \E nw \in {NewWriter(description, token)} :
          /\ callArgs' = [NoCall EXCEPT !.fn = "NewWriter", !.description = description,
                                        !.endian = token]
          /\ createErr' = nw.err
          /\ wr' = nw.w
          /\ api' = IF nw.err.msg = "nil" THEN "v5" ELSE "none"
    /\ UNCHANGED <<mw, nWrites, lastV, lastErr, wBefore, accepted, file>>
    /\ UNCHANGED <<closeVars, tagVars, oneVars, parseVars, matrixVars>>

\* matlab.Create(filename, version, opts...)
DoCreate ==
    /\ api = "none"
    /\ \E filename \in {<<>>, FileName}, version \in {Version5, Version73},
          opt \in {"default", LittleEndian, BigEndian} :
          \E c \in {Create(filename, version, opt)} :
          /\ createErr' = c.err
          /\ wr' = c.w
          /\ mw' = c.mw
          /\ callArgs' = [NoCall EXCEPT !.fn = "Create", !.filename = filename, !.opt = opt]
          /\ api' = IF c.err.msg # "nil" THEN "none"
                    ELSE IF version = Version5 THEN "public" ELSE "public73"
    /\ UNCHANGED <<nWrites, lastV, lastErr, wBefore, accepted, file>>
    /\ UNCHANGED <<closeVars, tagVars, oneVars, parseVars, matrixVars>>

\* writer.WriteVariable(v) on the v5.Writer or on the MatFileWriter
DoWriteVariable ==
    /\ api \in {"v5", "public", "public73"}
    /\ file.by = "none"
    /\ nWrites < MaxWrites
    /\ \E v \in (IF api = "public73" THEN BackendInputs ELSE MainInputs),
          berr \in (IF api = "public73" THEN BackendResults ELSE {NoError}) :
          \E res \in {IF api = "v5" THEN WriteVariable(wr, v)
                      ELSE MatFileWriterWriteVariable(mw, wr, v, berr)} :
              /\ lastV' = v
              /\ lastErr' = res.err
              /\ wr' = res.w
              /\ accepted' = IF res.err.msg = "nil" THEN Append(accepted, v) ELSE accepted
    /\ wBefore' = wr
    /\ nWrites' = nWrites + 1
    /\ UNCHANGED <<api, mw, createErr, callArgs, file>>
    /\ UNCHANGED <<closeVars, tagVars, oneVars, parseVars, matrixVars>>

\* writer.Close() on the MatFileWriter
DoClose ==
    /\ api \in {"public", "public73"}
    /\ closeCalls < MaxCloses
    /\ \E ferr \in {"nil", "close failed"} :
          \E c \in {Close(mw, ferr)} :
          /\ mw' = c.m
          /\ closeErr' = c.err
          /\ fileCloses' = fileCloses + (IF c.closed THEN 1 ELSE 0)
    /\ closeCalls' = closeCalls + 1
    /\ UNCHANGED <<api, wr, createErr, callArgs, nWrites, lastV, lastErr, wBefore, accepted, file>>
    /\ UNCHANGED <<tagVars, oneVars, parseVars, matrixVars>>

\* v5.NewParser(&buf) and parser.Parse() over the bytes written so far
DoParse ==
    /\ api = "v5"
    /\ file.by = "none"
    /\ file' = parseV5("Parse", wr.out)
    /\ UNCHANGED <<api, wr, mw, createErr, callArgs, nWrites, lastV, lastErr, wBefore, accepted>>
    /\ UNCHANGED <<closeVars, tagVars, oneVars, parseVars, matrixVars>>

\* matlab.Open over the file written so far
DoOpen ==
    /\ api = "public"
    /\ file.by = "none"
    /\ file' = Open(wr.out)
    /\ UNCHANGED <<api, wr, mw, createErr, callArgs, nWrites, lastV, lastErr, wBefore, accepted>>
    /\ UNCHANGED <<closeVars, tagVars, oneVars, parseVars, matrixVars>>

-----------------------------------------------------------------------------
(* Tag harness: a parser over a prepared stream, as the tag tests build it *)

MaxPayload == 10

\* payload bytes of a given length
Payload(n) == [i \in 1..n |-> (17 * i) % 256] \o <<>>

\* halves of the first word and size words the crafted streams are built from
CraftUpper == {0, 1, 2, 4, 5, 255, 256, 65535}
CraftLower == {0, 1, 9, 14, 15, 65535}
CraftSize ==
    {U32(0), U32(1), U32(4), U32(5), U32(8), U32(1073741824),
     <<127, 255, 255, 255>>, <<128, 0, 0, 0>>, <<128, 0, 0, 1>>,
     <<192, 0, 0, 0>>, <<255, 255, 255, 255>>}
CraftTail == {0, 4, 8}

\* readData was not called
NoData == [err |-> "none", data |-> <<>>, rest |-> <<>>]

NoArgs == [w1 |-> <<>>, w2 |-> <<>>, dataType |-> 0, size |-> 0, data |-> <<>>]

TagInit ==
    /\ tagPhase = "idle"
    /\ tagSrc = "none"
    /\ tagOrder = LittleEndian
    /\ tagIn = <<>>
    /\ tagArgs = NoArgs
    /\ tagOut = [err |-> "none", tag |-> NoTag, rest |-> <<>>]
    /\ tagAlloc = <<>>
    /\ tagRead = NoData

\* a test writes two words into an 8-byte buffer (createAndParseTag, TestDataTag_SmallFormat)
CraftTag ==
    /\ tagPhase = "idle"
    /\ \E order \in Orders, up \in CraftUpper, lo \in CraftLower, w2 \in CraftSize, n \in CraftTail :
          LET w1 == U16(up) \o U16(lo) IN
          /\ tagOrder' = order
          /\ tagIn' = PutUint(order, w1) \o PutUint(order, w2) \o Payload(n)
          /\ tagArgs' = [NoArgs EXCEPT !.w1 = w1, !.w2 = w2]
    /\ tagSrc' = "crafted"
    /\ tagPhase' = "ready"
    /\ UNCHANGED <<tagOut, tagAlloc, tagRead>>
    /\ UNCHANGED <<oneVars, mainVars, parseVars, matrixVars>>

\* the writer wraps a payload into a sub-element
WrapInTag ==
    /\ tagPhase = "idle"
    /\ \E order \in Orders, dt \in WriterTypeIds, n \in 0..MaxPayload :
          /\ tagOrder' = order
          /\ tagIn' = wrapInTag(order, dt, Payload(n))
          /\ tagArgs' = [NoArgs EXCEPT !.dataType = dt, !.size = n, !.data = Payload(n)]
    /\ tagSrc' = "wrapInTag"
    /\ tagPhase' = "ready"
    /\ UNCHANGED <<tagOut, tagAlloc, tagRead>>
    /\ UNCHANGED <<oneVars, mainVars, parseVars, matrixVars>>

\* the writer emits the outer tag of a matrix
WriteTag ==
    /\ tagPhase = "idle"
    /\ \E order \in Orders, dt \in WriterTypeIds, n \in 0..MaxPayload :
          /\ tagOrder' = order
          /\ tagIn' = writeTag(order, dt, n)
          /\ tagArgs' = [NoArgs EXCEPT !.dataType = dt, !.size = n]
    /\ tagSrc' = "writeTag"
    /\ tagPhase' = "ready"
    /\ UNCHANGED <<tagOut, tagAlloc, tagRead>>
    /\ UNCHANGED <<oneVars, mainVars, parseVars, matrixVars>>

\* the parser reads the tag and, as parseMatrixContent does, the element's data
ReadElement ==
    /\ tagPhase = "ready"
    /\ LET t == readTag(tagIn, tagOrder) IN
         /\ tagOut' = t
         /\ tagAlloc' = IF t.err = "nil" THEN readData(t.rest, t.tag).alloc ELSE <<>>
         /\ tagRead' = IF t.err = "nil"
                       THEN Bind(readData(t.rest, t.tag), LAMBDA d :
                                [err |-> d.err, data |-> d.data, rest |-> d.rest])
                       ELSE NoData
    /\ tagPhase' = "done"
    /\ UNCHANGED <<tagSrc, tagOrder, tagIn, tagArgs>>
    /\ UNCHANGED <<oneVars, mainVars, parseVars, matrixVars>>

TagNext == CraftTag \/ WrapInTag \/ WriteTag \/ ReadElement

-----------------------------------------------------------------------------
(* Stream harness: a parser over a header followed by hand-built elements *)

MaxElements == 3

\* the two variables of the well-formed matrices
StreamVarA == Var(NameOf(1), <<I64(1), I64(2)>>, "Uint8", Sample("[]byte"))
StreamVarB ==
    ComplexVar(NameOf(2), <<I64(1), I64(1)>>, "Int16", Arr("[]int16", <<-2>>), Arr("[]int16", <<258>>))

\* the 128 header bytes a test builds for a token: description, version, token
StreamHeader(order, token) ==
    Description \o Zeros(116 - Len(Description)) \o Zeros(8) \o PutUint(order, U16(256)) \o token

\* a matrix element around the given content bytes
MatrixAround(order, content) == writeTag(order, miMATRIX, Len(content)) \o content

\* the content of a well-formed matrix, as the encoder lays it out
ContentOf(order, v) == encodeMatrixContent(order, v).bytes

\* the elements a stream is put together from:
\*   "A", "B"  well-formed matrices
\*   "U"       a normal-tag element of a type that is neither matrix nor compressed
\*   "K"       a compact element of such a type: 2 payload bytes packed into the tag
\*   "Z"       a compressed element
\*   "F"       a matrix whose array-flags sub-element holds 4 bytes
\*   "O"       a matrix whose second sub-element declares a size above 2^31
\*   "S"       a matrix whose second sub-element declares more bytes than the matrix holds
\*   "P"       the first matrix with a tag that leaves the 6 padding bytes of its last
\*             sub-element out of the declared size; the 6 bytes follow the matrix
ElementKinds == {"A", "B", "U", "K", "Z", "F", "O", "S", "P"}

\* the bytes of every kind of element in either byte order, laid out once
ElementTable ==
    [order \in Orders |-> [kind \in ElementKinds |->
        CASE kind = "A" -> MatrixAround(order, ContentOf(order, StreamVarA))
          [] kind = "B" -> MatrixAround(order, ContentOf(order, StreamVarB))
          [] kind = "U" -> wrapInTag(order, miUINT8, Payload(5))
          [] kind = "K" -> PutUint(order, U16(2) \o U16(miUINT8)) \o <<7, 9, 0, 0>>
          [] kind = "Z" -> wrapInTag(order, miCOMPRESSED, Payload(8))
          [] kind = "F" -> MatrixAround(order,
                               wrapInTag(order, miUINT32, PutUint(order, U32(mxUINT8_CLASS)))
                               \o SubSeq(ContentOf(order, StreamVarA), 17,
                                         Len(ContentOf(order, StreamVarA))))
          [] kind = "O" -> MatrixAround(order,
                               SubSeq(ContentOf(order, StreamVarA), 1, 16)
                               \o PutUint(order, U32(miINT32)) \o <<255, 255, 255, 255>>
                               \o Zeros(8))
          [] kind = "S" -> MatrixAround(order,
                               SubSeq(ContentOf(order, StreamVarA), 1, 16)
                               \o writeTag(order, miINT32, 64) \o Zeros(8))
          [] kind = "P" -> writeTag(order, miMATRIX, Len(ContentOf(order, StreamVarA)) - 6)
                               \o ContentOf(order, StreamVarA)]]

ElementBytes(order, kind) == ElementTable[order][kind]

RECURSIVE StreamBody(_, _)
StreamBody(order, kinds) ==
    IF kinds = <<>> THEN <<>>
    ELSE ElementBytes(order, Head(kinds)) \o StreamBody(order, Tail(kinds))

\* header tokens: the two valid ones, "XX", and "mi" in lower case
StreamTokens == {TokenMI, TokenIM, <<88, 88>>, <<109, 105>>}

\* the byte order a stream with this token is laid out in: the one its reader will use
StreamOrder(token) == IF token = TokenIM THEN BigEndian ELSE LittleEndian

\* numbers of bytes missing at the end of a stream
StreamCuts == {0, 1, 4, 9}

ElementLists == UNION {[1..n -> ElementKinds] : n \in 0..MaxElements}

NoPlan == [token |-> <<>>, kinds |-> <<>>, cut |-> 0]

ParseInit ==
    /\ pPhase = "idle"
    /\ pPlan = NoPlan
    /\ pIn = <<>>
    /\ pOut = NoRead
    /\ pTrace = <<>>

\* a test lays a header and elements into a buffer, possibly stopping short of its end
CraftStream ==
    /\ pPhase = "idle"
    /\ \E token \in StreamTokens, kinds \in ElementLists, cut \in StreamCuts :
          \E full \in {StreamHeader(StreamOrder(token), token)
                         \o StreamBody(StreamOrder(token), kinds)} :
          /\ pPlan' = [token |-> token, kinds |-> kinds, cut |-> cut]
          /\ pIn' = SubSeq(full, 1, Len(full) - cut)
    /\ pPhase' = "ready"
    /\ UNCHANGED <<pOut, pTrace>>
    /\ UNCHANGED <<tagVars, oneVars, mainVars, matrixVars>>

\* v5.NewParser(bytes.NewReader(stream)) and parser.Parse()
ParseStream ==
    /\ pPhase = "ready"
    /\ \E f \in {parseV5Traced("Parse", pIn)} :
          /\ pOut' = f.file
          /\ pTrace' = f.steps
    /\ pPhase' = "done"
    /\ UNCHANGED <<pPlan, pIn>>
    /\ UNCHANGED <<tagVars, oneVars, mainVars, matrixVars>>

ParseNext == CraftStream \/ ParseStream

-----------------------------------------------------------------------------
(* Matrix harness: a parser over a header followed by one hand-built matrix *)

MaxData == 8

\* class ids, type ids of the data tags, and dimension lists a matrix is built from
MatrixClasses == {mxDOUBLE_CLASS, mxUINT8_CLASS, mxINT16_CLASS}
MatrixTypeIds == {miUINT8, miINT16, miDOUBLE}
MatrixDims ==
    {<<I64(1), I64(2)>>, <<I64(2), I64(2)>>, <<Zeros(4) \o <<128, 0, 0, 0>>>>,
     <<Int2p32m1, I64(1)>>}

NoMatrixPlan ==
    [token |-> <<>>, class |-> 0, complex |-> FALSE, dims |-> <<>>,
     realType |-> 0, realLen |-> 0, imagType |-> 0, imagLen |-> 0]

\* the content of a matrix laid out sub-element by sub-element: array flags (flags word,
\* class word), dimensions, name, real data and, with the complex bit, imaginary data
MatrixContent(order, plan) ==
    wrapInTag(order, miUINT32,
              PutUint(order, U32(IF plan.complex THEN 2048 ELSE 0))
              \o PutUint(order, U32(plan.class)))
    \o encodeDimensions(order, plan.dims)
    \o encodeName(order, NameOf(1))
    \o wrapInTag(order, plan.realType, Payload(plan.realLen))
    \o (IF plan.complex THEN wrapInTag(order, plan.imagType, Payload(plan.imagLen))
        ELSE <<>>)

MatrixInit ==
    /\ mPhase = "idle"
    /\ mPlan = NoMatrixPlan
    /\ mIn = <<>>
    /\ mOut = NoRead

\* a test lays a header and one matrix into a buffer
CraftMatrix ==
    /\ mPhase = "idle"
    /\ \E token \in {TokenMI, TokenIM}, class \in MatrixClasses, dims \in MatrixDims,
          realType \in MatrixTypeIds, realLen \in 0..MaxData, complex \in BOOLEAN :
          \E imagType \in (IF complex THEN MatrixTypeIds ELSE {0}),
             imagLen \in (IF complex THEN {realLen, 2} ELSE {0}) :
          \E plan \in {[token |-> token, class |-> class, complex |-> complex, dims |-> dims,
                        realType |-> realType, realLen |-> realLen,
                        imagType |-> imagType, imagLen |-> imagLen]} :
          /\ mPlan' = plan
          /\ mIn' = StreamHeader(StreamOrder(token), token)
                    \o MatrixAround(StreamOrder(token), MatrixContent(StreamOrder(token), plan))
    /\ mPhase' = "ready"
    /\ UNCHANGED mOut
    /\ UNCHANGED <<tagVars, oneVars, mainVars, parseVars>>

\* v5.NewParser(bytes.NewReader(stream)) and parser.Parse()
ParseMatrix ==
    /\ mPhase = "ready"
    /\ mOut' = parseV5("Parse", mIn)
    /\ mPhase' = "done"
    /\ UNCHANGED <<mPlan, mIn>>
    /\ UNCHANGED <<tagVars, oneVars, mainVars, parseVars>>

MatrixNext == CraftMatrix \/ ParseMatrix

-----------------------------------------------------------------------------
(* Properties of the tag codec, checked under SpecTag *)

\* a uint32 word above 2^31, spelled out on its bytes
Over2GiB(w) == w[1] > 128 \/ (w[1] = 128 /\ (w[2] > 0 \/ w[3] > 0 \/ w[4] > 0))

\* the first word of a crafted stream has its upper half in 1..4
CraftedCompact == N16(SubSeq(tagArgs.w1, 1, 2)) \in 1..4

CraftedDone == tagPhase = "done" /\ tagSrc = "crafted"

\* C3: a normal tag whose declared size is at most 2^31 is returned with that size, a
\* normal tag with a larger size yields an error and no tag, and no buffer above the
\* ceiling is ever allocated.
TagSizeCeiling ==
    /\ (CraftedDone /\ ~CraftedCompact) =>
          IF Over2GiB(tagArgs.w2)
          THEN tagOut.err = "tag size too large" /\ tagOut.tag = NoTag /\ tagAlloc = <<>>
          ELSE tagOut.err = "nil" /\ tagOut.tag.Size = tagArgs.w2 /\ ~tagOut.tag.IsSmall
    /\ (tagPhase = "done" /\ tagAlloc # <<>>) => ~Over2GiB(tagAlloc)

\* C3 witness: the boundary size 2^31 was accepted and a buffer of that size allocated
TagSizeCeilingWitness ==
    /\ CraftedDone /\ ~CraftedCompact
    /\ tagArgs.w2 = <<128, 0, 0, 0>>
    /\ tagOut.err = "nil" /\ tagAlloc = <<128, 0, 0, 0>>

WriterEmitsNormalTags ==
    (tagPhase = "done" /\ tagSrc \in {"wrapInTag", "writeTag"}) =>
        /\ Len(tagIn) >= 8
        /\ Uint(tagOrder, SubSeq(tagIn, 1, 4)) = U32(tagArgs.dataType)
        /\ Uint(tagOrder, SubSeq(tagIn, 5, 8)) = U32(tagArgs.size)
        /\ tagOut.err = "nil"
        /\ ~tagOut.tag.IsSmall
        /\ tagOut.tag.DataType = U32(tagArgs.dataType)
        /\ tagOut.tag.Size = U32(tagArgs.size)

\* C10 witness: a 3-byte payload wrapped by wrapInTag was read back as a normal tag
WriterEmitsNormalTagsWitness ==
    /\ tagPhase = "done" /\ tagSrc = "wrapInTag"
    /\ tagArgs.size = 3
    /\ tagOut.err = "nil" /\ ~tagOut.tag.IsSmall /\ tagOut.tag.Size = U32(3)

\* the number of bytes that brings n up to the next multiple of 8
PaddingOf(n) == CHOOSE p \in 0..7 : (n + p) % 8 = 0

\* the paddings the format description lists for payload sizes 0, 1, 4, 8 and 10
ListedPadding == (0 :> 0) @@ (1 :> 7) @@ (4 :> 4) @@ (8 :> 0) @@ (10 :> 6)

\* C11: for a payload of n bytes wrapInTag returns 8 + n + p bytes, p = (8 - n mod 8) mod 8:
\* the length is a multiple of 8, the payload follows the 8-byte tag unchanged, the p
\* trailing bytes are zero, and sizes 0, 1, 4, 8, 10 get 0, 7, 4, 0, 6 padding bytes.
PaddingLaw ==
    (tagSrc = "wrapInTag") =>
        LET n == Len(tagArgs.data)
            p == Len(tagIn) - 8 - n
        IN  /\ p = PaddingOf(n)
            /\ p = (8 - (n % 8)) % 8
            /\ Len(tagIn) % 8 = 0
            /\ SubSeq(tagIn, 9, 8 + n) = tagArgs.data
            /\ \A i \in (8 + n + 1)..Len(tagIn) : tagIn[i] = 0
            /\ n \in DOMAIN ListedPadding => p = ListedPadding[n]

\* C11 witness: a 10-byte payload was wrapped into 24 bytes, the last 6 of them zero
PaddingLawWitness ==
    /\ tagSrc = "wrapInTag"
    /\ Len(tagArgs.data) = 10
    /\ Len(tagIn) = 24
    /\ SubSeq(tagIn, 19, 24) = Zeros(6)

-----------------------------------------------------------------------------
(* Properties of write validation and payload encoding, checked under SpecOne *)

OneDone == onePhase = "done"

\* oneV passed the checks that precede the dimension loop
ReachesLoop ==
    Len(oneV.Name) \in 1..63 /\ oneV.Dimensions # <<>> /\ oneV.Data.kind # "nil"

PositiveInt(d) == d[1] < 128 /\ \E i \in 1..8 : d[i] > 0
AllPositive(dims) == \A i \in 1..Len(dims) : PositiveInt(dims[i])

\* the exact product of the first k dimensions (all positive), computed in 128 bits;
\* over is set once the product has passed 2^63 - 1 and p is then no longer meaningful
RECURSIVE TrueProduct(_, _)
TrueProduct(dims, k) ==
    IF k = 0 THEN [over |-> FALSE, p |-> Zeros(15) \o <<1>>]
    ELSE LET prev == TrueProduct(dims, k - 1)
         IN  IF prev.over THEN prev
             ELSE LET p == WordMul(prev.p, Zeros(8) \o dims[k])
                  IN  [over |-> WordGT(p, Zeros(8) \o <<127, 255, 255, 255, 255, 255, 255, 255>>),
                       p |-> p]

\* the running products the loop has formed are all exact and within int64
TotalsExact ==
    \A k \in 1..Len(oneVal.totals) :
        LET t == TrueProduct(oneV.Dimensions, k)
        IN  ~t.over /\ t.p = Zeros(8) \o oneVal.totals[k]

\* the writer is as it was before the call: nothing written, position unchanged
NothingWritten == oneRes.w = oneW

\* C4 as stated: dimensions [2^31-1, 2^31-1] are rejected with a dimension-overflow error
\* and nothing is written; [2,3] passes with element count 6.
DimensionOverflowAsStated ==
    (OneDone /\ ReachesLoop) =>
        /\ oneV.Dimensions = <<Int2p31m1, Int2p31m1>> =>
              oneRes.err.msg = "dimensions overflow" /\ NothingWritten
        /\ oneV.Dimensions = <<I64(2), I64(3)>> =>
              oneVal.err.msg = "nil" /\ oneVal.total = I64(6)

\* C4 amended: dimensions [2^32-1, 2^32-1] are rejected with a dimension-overflow error
\* and nothing is written; [2^31-1, 2^31-1] passes validation, its product
\* 2^62 - 2^32 + 1 fitting an int64; [2,3] passes with element count 6.
DimensionOverflow ==
    (OneDone /\ ReachesLoop) =>
        /\ oneV.Dimensions = <<Int2p32m1, Int2p32m1>> =>
              oneRes.err.msg = "dimensions overflow" /\ NothingWritten
        /\ oneV.Dimensions = <<Int2p31m1, Int2p31m1>> =>
              oneVal.err.msg = "nil" /\ oneVal.total = <<63, 255, 255, 255, 0, 0, 0, 1>>
        /\ oneV.Dimensions = <<I64(2), I64(3)>> =>
              oneVal.err.msg = "nil" /\ oneVal.total = I64(6)

\* C4 witness: WriteVariable was called with [2^32-1, 2^32-1] and returned the overflow error
DimensionOverflowWitness ==
    /\ OneDone /\ ReachesLoop
    /\ oneV.Dimensions = <<Int2p32m1, Int2p32m1>>
    /\ oneRes.err.msg = "dimensions overflow"

\* C5: for an accepted dimension list every running product is the exact product and at
\* most 2^63 - 1; a list of positive dimensions whose exact product is larger is rejected
\* with the overflow error, every multiplication done before the rejection being exact.
ProductNeverWraps ==
    (OneDone /\ ReachesLoop) =>
        /\ oneVal.err.msg = "nil" =>
              /\ Len(oneVal.totals) = Len(oneV.Dimensions)
              /\ TotalsExact
              /\ oneVal.total = oneVal.totals[Len(oneVal.totals)]
        /\ (AllPositive(oneV.Dimensions)
              /\ TrueProduct(oneV.Dimensions, Len(oneV.Dimensions)).over) =>
              /\ oneVal.err.msg = "dimensions overflow"
              /\ oneRes.err.msg = "dimensions overflow"
              /\ TotalsExact

\* C5 witness: a list was rejected at its third dimension, after two exact multiplications
ProductNeverWrapsWitness ==
    /\ OneDone /\ ReachesLoop
    /\ Len(oneV.Dimensions) = 3 /\ AllPositive(oneV.Dimensions)
    /\ oneVal.err.msg = "dimensions overflow" /\ Len(oneVal.totals) = 2

HasNonPositive(dims) == \E i \in 1..Len(dims) : ~PositiveInt(dims[i])
FirstNonPositive(dims) ==
    CHOOSE i \in 1..Len(dims) : ~PositiveInt(dims[i]) /\ \A j \in 1..(i - 1) : PositiveInt(dims[j])

\* the Go kind that belongs to a numeric element type
KindOf(dt) ==
    CASE dt = "Double" -> "[]float64" [] dt = "Single" -> "[]float32"
      [] dt = "Int8"   -> "[]int8"    [] dt = "Uint8"  -> "[]byte"
      [] dt = "Int16"  -> "[]int16"   [] dt = "Uint16" -> "[]uint16"
      [] dt = "Int32"  -> "[]int32"   [] dt = "Uint32" -> "[]uint32"
      [] dt = "Int64"  -> "[]int64"   [] dt = "Uint64" -> "[]uint64"
      [] OTHER         -> "none"

\* oneV has a payload its declared type can encode
PayloadFits ==
    /\ oneV.DataType \in NumericTypes
    /\ IF oneV.IsComplex
       THEN /\ oneV.Data.kind = NumericArrayKind
            /\ oneV.Real.kind = KindOf(oneV.DataType)
            /\ oneV.Imag.kind = KindOf(oneV.DataType)
       ELSE oneV.Data.kind = KindOf(oneV.DataType)

\* every defect the claim lists makes WriteVariable fail, and names of 1..63 bytes pass
DefectsRejected ==
    /\ (\/ oneV.Name = <<>> \/ Len(oneV.Name) > 63 \/ oneV.Dimensions = <<>>
        \/ oneV.Data.kind = "nil" \/ HasNonPositive(oneV.Dimensions)) =>
          oneRes.err.msg # "nil" /\ NothingWritten
    /\ (/\ Len(oneV.Name) \in 1..63 /\ oneV.Dimensions # <<>>
        /\ AllPositive(oneV.Dimensions)
        /\ ~TrueProduct(oneV.Dimensions, Len(oneV.Dimensions)).over
        /\ PayloadFits) =>
          oneRes.err.msg = "nil"

\* C6 as stated: the listed defects are rejected, a non-positive dimension always with an
\* error naming the index of the first non-positive dimension; names of 1..63 bytes pass.
ValidationErrorsAsStated ==
    OneDone =>
        /\ DefectsRejected
        /\ (ReachesLoop /\ HasNonPositive(oneV.Dimensions)) =>
              /\ oneRes.err.msg = "dimension must be positive"
              /\ oneRes.err.index = FirstNonPositive(oneV.Dimensions) - 1

\* C6 amended: as stated, except that the error names the index of the first non-positive
\* dimension only when the product of the dimensions before it fits an int64; when that
\* product overflows, the dimension-overflow error is returned instead.
ValidationErrors ==
    OneDone =>
        /\ DefectsRejected
        /\ (ReachesLoop /\ HasNonPositive(oneV.Dimensions)) =>
              IF TrueProduct(oneV.Dimensions, FirstNonPositive(oneV.Dimensions) - 1).over
              THEN oneRes.err.msg = "dimensions overflow"
              ELSE /\ oneRes.err.msg = "dimension must be positive"
                   /\ oneRes.err.index = FirstNonPositive(oneV.Dimensions) - 1

\* C6 witness: [3,0,2] with a 63-byte name was rejected with index 1
ValidationErrorsWitness ==
    /\ OneDone
    /\ Len(oneV.Name) = 63
    /\ oneV.Dimensions = <<I64(3), I64(0), I64(2)>>
    /\ oneV.Data.kind # "nil"
    /\ oneRes.err.msg = "dimension must be positive" /\ oneRes.err.index = 1

\* C8: for each numeric element type, WriteVariable succeeds only with the payload kind
\* of that type, and a payload of another kind yields an error naming the expected and
\* the actual kind.
TypeMismatch ==
    (OneDone /\ oneVal.err.msg = "nil" /\ oneV.DataType \in NumericTypes) =>
        /\ oneRes.err.msg = "nil" => PayloadFits
        /\ (~oneV.IsComplex /\ oneV.Data.kind # KindOf(oneV.DataType)) =>
              /\ oneRes.err.msg # "nil"
              /\ oneRes.err.expected = KindOf(oneV.DataType)
              /\ oneRes.err.actual = oneV.Data.kind
        /\ (oneV.IsComplex /\ oneV.Data.kind # NumericArrayKind) =>
              /\ oneRes.err.msg # "nil"
              /\ oneRes.err.expected = NumericArrayKind
              /\ oneRes.err.actual = oneV.Data.kind
        /\ (oneV.IsComplex /\ oneV.Data.kind = NumericArrayKind
              /\ oneV.Real.kind \notin {"nil", KindOf(oneV.DataType)}) =>
              /\ oneRes.err.msg # "nil"
              /\ oneRes.err.expected = KindOf(oneV.DataType)
              /\ oneRes.err.actual = oneV.Real.kind
        /\ (oneV.IsComplex /\ oneV.Data.kind = NumericArrayKind
              /\ oneV.Real.kind = KindOf(oneV.DataType)
              /\ oneV.Imag.kind \notin {"nil", KindOf(oneV.DataType)}) =>
              /\ oneRes.err.msg # "nil"
              /\ oneRes.err.expected = KindOf(oneV.DataType)
              /\ oneRes.err.actual = oneV.Imag.kind

\* C8 witness: a Double variable with an []int32 payload was rejected, both kinds named
TypeMismatchWitness ==
    /\ OneDone
    /\ oneV.DataType = "Double" /\ ~oneV.IsComplex /\ oneV.Data.kind = "[]int32"
    /\ oneRes.err.expected = "[]float64" /\ oneRes.err.actual = "[]int32"

\* a v5.Writer exists: NewWriter returned nil error
WriterOpen == api = "v5" /\ createErr.msg = "nil"

\* what the header decoder makes of the 128 bytes the writer put first
DecodedHeader == parseHeader(SubSeq(wr.out, 1, 128))

\* C12: for both tokens, the byte order NewWriter encodes in is the byte order the header
\* decoder selects for that token, so the decoder reads version 0x0100 from a header the
\* writer wrote.
ByteOrderAgreement ==
    WriterOpen =>
        /\ DecodedHeader.err = "nil"
        /\ DecodedHeader.hdr.EndianIndicator = wr.EndianIndicator
        /\ DecodedHeader.hdr.Order = wr.Order
        /\ DecodedHeader.hdr.Version = U16(256)

-----------------------------------------------------------------------------
(* Claims about sessions (specification Spec) *)

\* the read variable r agrees with the written variable v in name, dimensions,
\* element type, complex flag and payload values
SameVariable(r, v) ==
    /\ r.Name = v.Name
    /\ r.Dimensions = v.Dimensions
    /\ r.DataType = v.DataType
    /\ r.IsComplex = v.IsComplex
    /\ IF v.IsComplex THEN r.Real = v.Real /\ r.Imag = v.Imag ELSE r.Data = v.Data

\* a session of exactly one WriteVariable call, which was accepted
OneAcceptedWrite == nWrites = 1 /\ Len(accepted) = 1

\* C1: NewParser and Parse over the bytes of NewWriter(token) followed by one accepted
\* WriteVariable(v) return exactly one variable, equal to v in name, dimensions, element
\* type, complex flag and payload values, for both tokens.
RoundTrip ==
    (api = "v5" /\ file.by = "Parse" /\ OneAcceptedWrite) =>
        /\ file.err = "nil"
        /\ Len(file.vars) = 1
        /\ SameVariable(file.vars[1], accepted[1])

\* C2: a file written through Create, WriteVariable and Close is accepted by Open as
\* version 5.0 and holds the variable written, with the same name, type and values.
OpenReadsCreatedFile ==
    (api = "public" /\ file.by = "Open" /\ ~mw.v5file /\ OneAcceptedWrite) =>
        /\ file.err = "nil"
        /\ file.version = "5.0"
        /\ Len(file.vars) = 1
        /\ SameVariable(file.vars[1], accepted[1])

\* the matrices of a stream after its header: their number, or -1 when the bytes are not
\* a sequence of whole miMATRIX elements in the writer's byte order
RECURSIVE CountMatrices(_, _)
CountMatrices(bytes, order) ==
    IF bytes = <<>> THEN 0
    ELSE IF Len(bytes) < 8 THEN -1
    ELSE IF Uint(order, SubSeq(bytes, 1, 4)) # U32(miMATRIX) THEN -1
    ELSE LET size == Uint(order, SubSeq(bytes, 5, 8)) IN
         IF WordGT(size, U32(Len(bytes) - 8)) THEN -1
         ELSE LET n == CountMatrices(SubSeq(bytes, 9 + N32(size), Len(bytes)), order)
              IN  IF n < 0 THEN -1 ELSE n + 1

\* C7: a WriteVariable call of the v5 writer that returns an error leaves the stream and
\* the position as they were, and the stream stays the header followed by one whole
\* matrix element per accepted call, whatever calls failed in between.
FailedWriteWritesNothing ==
    api \in {"v5", "public"} =>
        /\ (nWrites > 0 /\ lastErr.msg # "nil") => (wr.out = wBefore.out /\ wr.pos = wBefore.pos)
        /\ wr.pos = Len(wr.out)
        /\ SubSeq(wr.out, 1, 128) = writeHeader(wr)
        /\ CountMatrices(SubSeq(wr.out, 129, Len(wr.out)), wr.Order) = Len(accepted)

\* a first call returned an error and the call after it was accepted and written
FailedWriteWritesNothingWitness ==
    /\ api = "v5"
    /\ nWrites = 2
    /\ Len(accepted) = 1
    /\ lastErr.msg = "nil"
    /\ Len(wr.out) > 128
\* the smaller of two numbers
Min(a, b) == IF a < b THEN a ELSE b

\* C14: NewWriter with a valid token leaves exactly 128 header bytes in the stream, and
\* they stay the first 128 bytes, followed only by matrix elements: bytes 0..115 are the
\* description cut to 116 bytes and padded with zeros, bytes 116..123 are zero, bytes
\* 126..127 are the token; with any other token NewWriter returns an error and the
\* stream stays empty.
HeaderBytes ==
    callArgs.fn = "NewWriter" =>
        IF callArgs.endian \in {TokenIM, TokenMI}
        THEN /\ createErr.msg = "nil" /\ api = "v5"
             /\ nWrites = 0 => (Len(wr.out) = 128 /\ wr.pos = 128)
             /\ Len(wr.out) >= 128
             /\ LET k == Min(Len(callArgs.description), 116)
                IN  /\ SubSeq(wr.out, 1, k) = SubSeq(callArgs.description, 1, k)
                    /\ \A i \in (k + 1)..124 : wr.out[i] = 0
             /\ SubSeq(wr.out, 127, 128) = callArgs.endian
             /\ CountMatrices(SubSeq(wr.out, 129, Len(wr.out)), wr.Order) = Len(accepted)
        ELSE /\ createErr.msg = "invalid endian indicator"
             /\ api = "none"
             /\ wr.out = <<>> /\ wr.pos = 0

\* C14 witness: a 120-byte description was cut to 116 bytes and a variable was written
\* after the header
HeaderBytesWitness ==
    /\ callArgs.fn = "NewWriter" /\ Len(callArgs.description) = 120
    /\ api = "v5" /\ Len(accepted) = 1
    /\ SubSeq(wr.out, 1, 116) = SubSeq(callArgs.description, 1, 116)
    /\ wr.out[117] = 0
    /\ Len(wr.out) > 128

\* the byte order Create was asked for: binary.LittleEndian unless WithEndianness was given
RequestedOrder == IF callArgs.opt = "default" THEN LittleEndian ELSE callArgs.opt

\* C13: the file Create yields has its version field, tags and payload words in the byte
\* order WithEndianness asked for; without the option the file is little-endian and
\* carries the token "MI".
CreateHonoursEndianness ==
    (api = "public") =>
        /\ wr.Order = RequestedOrder
        /\ SubSeq(wr.out, 125, 126) = PutUint(RequestedOrder, U16(256))
        /\ Len(wr.out) > 128 => SubSeq(wr.out, 129, 132) = PutUint(RequestedOrder, U32(miMATRIX))
        /\ callArgs.opt = "default" => SubSeq(wr.out, 127, 128) = TokenMI

\* the read variable r carries the name and the payload of the written variable v
SameNameAndPayload(r, v) ==
    /\ r.Name = v.Name
    /\ IF v.IsComplex THEN r.Real = v.Real /\ r.Imag = v.Imag ELSE r.Data = v.Data

\* C16: after NewWriter and the accepted WriteVariable calls v1..vn, Parse over the
\* written bytes returns exactly n variables, the i-th with the name and payload of vi,
\* variables of the same name included.
FileOrderIsWriteOrder ==
    (api = "v5" /\ file.by = "Parse" /\ Len(accepted) >= 1) =>
        /\ file.err = "nil"
        /\ Len(file.vars) = Len(accepted)
        /\ \A i \in 1..Len(accepted) : SameNameAndPayload(file.vars[i], accepted[i])

-----------------------------------------------------------------------------
(* Properties of the parser over hand-built streams, checked under SpecParse *)

StreamParsed == pPhase = "done"

ValidToken == pPlan.token \in {TokenMI, TokenIM}

\* the whole header is in the stream
HeaderIntact == Len(pIn) >= 128

\* C15: the header decoder accepts bytes 126..127 only when they are "MI" or "IM"; for
\* any other two bytes it returns an error and no Header, NewParser returns no parser,
\* and no variable of that stream is decoded.
InvalidTokenRejected ==
    (pPhase # "idle" /\ HeaderIntact) =>
        /\ SubSeq(pIn, 127, 128) = pPlan.token
        /\ IF ValidToken
           THEN /\ parseHeader(SubSeq(pIn, 1, 128)).err = "nil"
                /\ parseHeader(SubSeq(pIn, 1, 128)).hdr.EndianIndicator = pPlan.token
           ELSE /\ parseHeader(SubSeq(pIn, 1, 128)) =
                       [err |-> "invalid endian indicator", hdr |-> NoHeader]
                /\ NewParser(pIn).err = "invalid endian indicator"
                /\ StreamParsed => pOut = NoFile("Parse", "invalid endian indicator")

\* C15 witness: a stream with the token "mi" and a well-formed matrix was refused
InvalidTokenRejectedWitness ==
    /\ StreamParsed /\ HeaderIntact
    /\ pPlan.token = <<109, 105>>
    /\ pPlan.kinds = <<"A">> /\ pPlan.cut = 0
    /\ pOut.err = "invalid endian indicator" /\ pOut.vars = <<>>

\* elements the parser gets through without an error and without losing its place
PassableKinds == {"A", "B", "U"}

\* matrices that cannot be decoded, and the error decoding each of them ends with
CorruptKinds == {"F", "O", "S"}

CorruptError(kind) ==
    CASE kind = "F" -> "invalid array flags size"
      [] kind = "O" -> "tag size too large"
      [] kind = "S" -> "ErrUnexpectedEOF"

\* the elements before the k-th are all passable
PassableBefore(k) == \A i \in 1..(k - 1) : pPlan.kinds[i] \in PassableKinds

\* the offset in the uncut stream at which the k-th element ends
ElementEnd(k) == 128 + Len(StreamBody(StreamOrder(pPlan.token), SubSeq(pPlan.kinds, 1, k)))

\* all bytes of the k-th element are in the stream
WholeElement(k) == Len(pIn) >= ElementEnd(k)

\* C17: when a matrix element fails to decode (array flags not 8 bytes, oversized inner
\* tag, truncated payload), Parse returns that error and no file: neither the variables
\* decoded before it nor anything after it is returned.
CorruptMatrixAborts ==
    (StreamParsed /\ ValidToken) =>
        /\ pOut.err # "nil" => pOut = NoFile("Parse", pOut.err)
        /\ \A k \in 1..Len(pPlan.kinds) :
              (pPlan.kinds[k] \in CorruptKinds /\ PassableBefore(k)) =>
                  pOut.err = IF WholeElement(k) THEN CorruptError(pPlan.kinds[k])
                             ELSE "ErrUnexpectedEOF"
        /\ \A k \in 1..Len(pPlan.kinds) :
              (pPlan.kinds[k] \in {"A", "B"} /\ PassableBefore(k) /\ ~WholeElement(k)) =>
                  pOut.err = "ErrUnexpectedEOF"

\* C17 witness: a matrix with a 4-byte flags sub-element stood between two well-formed
\* matrices, and Parse returned the flags error and no variable
CorruptMatrixAbortsWitness ==
    /\ StreamParsed /\ ValidToken
    /\ pPlan.kinds = <<"A", "F", "B">> /\ pPlan.cut = 0
    /\ pOut.err = "invalid array flags size" /\ pOut.vars = <<>>

\* every element of the stream is a well-formed matrix or a normal-tag unknown element
AllPassable == \A i \in 1..Len(pPlan.kinds) : pPlan.kinds[i] \in PassableKinds

\* C18: a stream that ends inside an element (inside a tag, a payload or the padding of
\* a matrix, a sub-element or a skipped unknown element) makes Parse return an error;
\* Parse returns a file only when the stream ends at a top-level element boundary.
TruncationIsAnError ==
    (StreamParsed /\ ValidToken /\ AllPassable) =>
        (pOut.err = "nil" <=> pPlan.cut = 0)

IsMatrixKind(kind) == kind \in {"A", "B"}

\* what the parser makes of the same stream with every non-matrix element taken out
WithoutUnknown ==
    parseV5("Parse", StreamHeader(StreamOrder(pPlan.token), pPlan.token)
                     \o StreamBody(StreamOrder(pPlan.token), SelectSeq(pPlan.kinds, IsMatrixKind)))

\* C19: a top-level element that is neither a matrix nor compressed does not make Parse
\* fail; Parse passes over exactly its extent (tag, payload and padding of a normal tag,
\* the 8 bytes of a compact tag) and decodes the matrices after it as if it were absent.
UnknownElementsSkipped ==
    (StreamParsed /\ ValidToken /\ pPlan.cut = 0
        /\ \A i \in 1..Len(pPlan.kinds) : pPlan.kinds[i] \in {"A", "B", "U", "K"}) =>
        /\ pOut.err = "nil"
        /\ pOut = WithoutUnknown

\* the 8 tag bytes of the k-th element are in the stream
TagPresent(k) == Len(pIn) >= ElementEnd(k - 1) + 8

\* C20: a top-level tag of type compressed makes Parse return an error and no file,
\* however many matrices were decoded before it; nothing of the element is decoded.
CompressedRejected ==
    (StreamParsed /\ ValidToken) =>
        \A k \in 1..Len(pPlan.kinds) :
            (pPlan.kinds[k] = "Z" /\ PassableBefore(k) /\ TagPresent(k)) =>
                pOut = NoFile("Parse", "compressed data not yet supported")

\* C20 witness: a compressed element came after two well-formed matrices and Parse
\* returned the error and none of the two variables
CompressedRejectedWitness ==
    /\ StreamParsed /\ ValidToken
    /\ pPlan.kinds = <<"A", "B", "Z">> /\ pPlan.cut = 0
    /\ pOut.err = "compressed data not yet supported" /\ pOut.vars = <<>>

\* a MatFileWriter that Create returned
CreatedWriter == api \in {"public", "public73"}

WriteAfterCloseFails ==
    [][(CreatedWriter /\ closeCalls >= 1 /\ nWrites' = nWrites + 1) =>
           (lastErr'.msg # "nil" /\ wr' = wr /\ accepted' = accepted)]_vars

\* C22 witness: a closed Version5 writer that had accepted one variable refused the next
\* WriteVariable call and the file is what it was before the call
WriteAfterCloseFailsWitness ==
    /\ api = "public" /\ closeCalls >= 1 /\ nWrites = 2 /\ Len(accepted) = 1
    /\ lastErr.msg = "v5 writer is not initialized"
    /\ wBefore = wr /\ Len(wr.out) > 128

\* a crafted stream whose tag word is compact: the first word's upper half is 1..4
CompactRead ==
    tagPhase = "done" /\ tagSrc = "crafted" /\ tagOut.err = "nil" /\ tagOut.tag.IsSmall

\* C23: for a compact tag of size s the decoder's payload is the first s of the 4 bytes
\* that follow the tag word, and the element takes 8 bytes of the reader in all, so the
\* next tag is read 8 bytes after the element's start.
CompactElementIsEightBytes ==
    CompactRead =>
        Bind(N32(tagOut.tag.Size), LAMBDA s :
            /\ tagRead.err = "nil"
            /\ tagRead.data = SubSeq(tagIn, 5, 4 + s)
            /\ tagRead.rest = SubSeq(tagIn, 9, Len(tagIn)))

\* the i-th iteration of the loop handled a matrix element whose declared bytes were all
\* in the stream
WholeMatrixStep(i) ==
    /\ pTrace[i].tag.DataType = U32(miMATRIX)
    /\ pTrace[i].before - 8 >= N32(pTrace[i].tag.Size)

\* C24: decoding a matrix element of declared size S takes exactly the S bytes after its
\* tag from the outer stream, whatever the inner tags declare; an inner tag that declares
\* more bytes than the matrix holds makes the decode fail with an error, also when the
\* bytes it asks for are there in the next top-level elements.
MatrixTakesDeclaredSize ==
    (StreamParsed /\ ValidToken) =>
        /\ \A i \in 1..Len(pTrace) :
               WholeMatrixStep(i) =>
                   pTrace[i].after = pTrace[i].before - 8 - N32(pTrace[i].tag.Size)
        /\ \A k \in 1..Len(pPlan.kinds) :
               (pPlan.kinds[k] = "S" /\ PassableBefore(k) /\ WholeElement(k)) =>
                   /\ Len(pTrace) = k /\ WholeMatrixStep(k)
                   /\ pTrace[k].err = "ErrUnexpectedEOF"
                   /\ pOut = NoFile("Parse", "ErrUnexpectedEOF")

\* C24 witness: a matrix whose inner tag declares 64 bytes where the matrix holds 8 was
\* followed by two whole matrices, more than 64 bytes; its decode failed after the parser
\* had taken the matrix's own bytes and no more
MatrixTakesDeclaredSizeWitness ==
    /\ StreamParsed /\ ValidToken /\ pPlan.kinds = <<"S", "A", "B">> /\ WholeElement(3)
    /\ Len(pIn) - ElementEnd(1) >= 64
    /\ Len(pTrace) = 1 /\ pTrace[1].err = "ErrUnexpectedEOF"
    /\ pTrace[1].after = Len(pIn) - ElementEnd(1)

\* bytes of padding after a normal-tag element of n payload bytes
PaddingAfter(n) == (8 - (n % 8)) % 8

\* the i-th iteration of the loop read a normal tag and handled the element, a decoded
\* matrix or a skipped element, and the element's payload and padding were in the stream
NormalElementStep(i) ==
    /\ pTrace[i].err = "nil" /\ ~pTrace[i].tag.IsSmall
    /\ pTrace[i].before - 8 >=
           N32(pTrace[i].tag.Size) + PaddingAfter(N32(pTrace[i].tag.Size))

\* C25: after Parse has processed a top-level normal-tag element of declared size s, a
\* decoded matrix or a skipped element, its reader has advanced by 8 + s + ((8 - s mod 8)
\* mod 8) bytes, so the next top-level tag is read after the padding.
NormalElementAdvance ==
    (StreamParsed /\ ValidToken) =>
        \A i \in 1..Len(pTrace) :
            NormalElementStep(i) =>
                pTrace[i].before - pTrace[i].after =
                    8 + N32(pTrace[i].tag.Size) + PaddingAfter(N32(pTrace[i].tag.Size))

MatrixParsed == mPhase = "done" /\ mOut.err = "nil"

\* the Go kind of a payload is the one of the element type, where the type has one
KindAgrees(dt, payload) == KindOf(dt) # "none" => payload.kind = KindOf(dt)

\* C26: for every Variable the decoder returns, the array kind of the real payload, and of
\* the imaginary payload when the complex bit is set, is the one of the Variable's declared
\* element type, which comes from the class id of the array flags, whatever type ids the
\* data tags carry.
PayloadKindFollowsClass ==
    MatrixParsed =>
        \A i \in 1..Len(mOut.vars) :
            /\ mOut.vars[i].DataType = classToDataType(U32(mPlan.class))
            /\ IF mOut.vars[i].IsComplex
               THEN /\ KindAgrees(mOut.vars[i].DataType, mOut.vars[i].Real)
                    /\ KindAgrees(mOut.vars[i].DataType, mOut.vars[i].Imag)
               ELSE KindAgrees(mOut.vars[i].DataType, mOut.vars[i].Data)

\* the number of elements of a payload, as a 128-bit word
PayloadCount(payload) == Zeros(12) \o U32(Len(payload.vals))

\* the Variable invariant: as many payload elements as the product of the dimensions, and
\* for a complex Variable real and imaginary payloads of one length
VariableInvariant(v) ==
    /\ ~TrueProduct(v.Dimensions, Len(v.Dimensions)).over
    /\ IF v.IsComplex
       THEN /\ PayloadCount(v.Real) = TrueProduct(v.Dimensions, Len(v.Dimensions)).p
            /\ Len(v.Real.vals) = Len(v.Imag.vals)
       ELSE PayloadCount(v.Data) = TrueProduct(v.Dimensions, Len(v.Dimensions)).p

\* C27: every Variable that WriteVariable has accepted and every Variable that the
\* decoder has returned satisfies the Variable invariant.
VariablesSatisfyInvariant ==
    /\ \A i \in 1..Len(accepted) : api \in {"v5", "public"} => VariableInvariant(accepted[i])
    /\ \A i \in 1..Len(file.vars) : VariableInvariant(file.vars[i])
    /\ \A i \in 1..Len(mOut.vars) : VariableInvariant(mOut.vars[i])

\* what is left of r after k sub-elements have been read from it, tag, payload and padding
RECURSIVE SkipElements(_, _, _)
SkipElements(r, order, k) ==
    IF k = 0 THEN r ELSE SkipElements(readElement(r, order).rest, order, k - 1)

\* the bytes from offset on are the matrix elements of the accepted Variables from the
\* i-th on, each starting at a multiple of 8 with a matrix tag whose size is the length
\* of the 4 or 5 sub-elements that follow it
RECURSIVE MatricesFrom(_, _)
MatricesFrom(offset, i) ==
    IF i > Len(accepted) THEN offset = Len(wr.out)
    ELSE
    /\ offset % 8 = 0
    /\ Len(wr.out) >= offset + 8
    /\ Uint(wr.Order, SubSeq(wr.out, offset + 1, offset + 4)) = U32(miMATRIX)
    /\ Bind(N32(Uint(wr.Order, SubSeq(wr.out, offset + 5, offset + 8))), LAMBDA size :
           /\ Len(wr.out) >= offset + 8 + size
           /\ Len(SkipElements(SubSeq(wr.out, offset + 9, Len(wr.out)), wr.Order,
                               IF accepted[i].IsComplex THEN 5 ELSE 4))
                  = Len(wr.out) - (offset + 8 + size)
           /\ MatricesFrom(offset + 8 + size + ((8 - (size % 8)) % 8), i + 1))

\* C28: after NewWriter and any sequence of WriteVariable calls the stream holds 128
\* bytes plus a multiple of 8, every matrix element starts at a multiple of 8, every matrix
\* tag's size is the byte length of the content after it, and the writer's position
\* counter is the number of bytes written.
WriterAlignment ==
    api \in {"v5", "public"} =>
        /\ Len(wr.out) >= 128 /\ (Len(wr.out) - 128) % 8 = 0
        /\ MatricesFrom(128, 1)
        /\ wr.pos = Len(wr.out)

\* C28 witness: two variables were written, the second a complex one of five sub-elements
WriterAlignmentWitness ==
    /\ api = "v5" /\ Len(accepted) = 2 /\ accepted[2].IsComplex /\ ~accepted[1].IsComplex
    /\ wr.pos = Len(wr.out) /\ Len(wr.out) > 128 + 16

\* the dimensions the decoder reads from the matrix the single call has written, decoded
\* in the byte order the writer used
WrittenDimensions ==
    parseMatrixContent(SubSeq(oneRes.w.out, 137, Len(oneRes.w.out)), oneRes.w.Order).v.Dimensions

\* C29: every dimension that write validation accepts is stored in its 4-byte field
\* without loss and decoded back to the same integer.
DimensionsRoundTrip ==
    (onePhase = "done" /\ oneRes.err.msg = "nil") => WrittenDimensions = oneV.Dimensions

\* the i-th iteration ended the loop: its readTag met the end of the stream or an error,
\* or the element made Parse return an error
EndsLoop(i) == pTrace[i].err # "nil"

\* C30: Parse terminates on every finite stream: each iteration of its loop takes at least
\* 8 bytes from the stream or ends the loop with end-of-stream or an error, so there are
\* no more iterations than 8-byte units in the stream plus one, and decoding one matrix
\* reads at most five sub-elements.
ParseTerminates ==
    (StreamParsed /\ HeaderIntact /\ ValidToken) =>
        /\ Len(pTrace) >= 1 /\ EndsLoop(Len(pTrace))
        /\ Len(pTrace) <= ((Len(pIn) - 128) \div 8) + 1
        /\ \A i \in 1..Len(pTrace) :
               /\ pTrace[i].reads <= 5
               /\ IF EndsLoop(i) THEN i = Len(pTrace)
                  ELSE /\ i < Len(pTrace)
                       /\ pTrace[i].before - pTrace[i].after >= 8
                       /\ pTrace[i + 1].before = pTrace[i].after

\* C30 witness: the loop went through a skipped element, a matrix of five sub-elements
\* and a matrix of four, and ended at the end of the stream in its fourth iteration
ParseTerminatesWitness ==
    /\ StreamParsed /\ ValidToken /\ pPlan.cut = 0 /\ pPlan.kinds = <<"U", "B", "A">>
    /\ Len(pTrace) = 4 /\ pTrace[4].err = "EOF" /\ pTrace[4].before = 0
    /\ pTrace[1].reads = 0 /\ pTrace[2].reads = 5 /\ pTrace[3].reads = 4
    /\ pOut.err = "nil"

Init == TagInit /\ OneInit /\ MainInit /\ ParseInit /\ MatrixInit

Next == DoNewWriter \/ DoCreate \/ DoWriteVariable \/ DoClose \/ DoParse \/ DoOpen

Spec == Init /\ [][Next]_vars

SpecTag == Init /\ [][TagNext]_vars

SpecOne == Init /\ [][OneNext]_vars

SpecParse == Init /\ [][ParseNext]_vars

SpecMatrix == Init /\ [][MatrixNext]_vars

====
